---- MODULE Spec2Model ----
(***************************************************************************)
(* Aline voice backend: the per-connection turn pipeline of server.js, the *)
(* invariant gate of services/invariant-gate.js and the conductance        *)
(* accumulator (pathway store), the Fibonacci classifier of                *)
(* services/classifier.js and the response budgets derived from its tier.  *)
(*                                                                         *)
(* The specifications that share the module:                               *)
(*   Spec      - one WebSocket connection of either program of server.js   *)
(*               (lines 184-437 and 532-773) that stays open.              *)
(*   ConnSpec  - the connection when its client may close it and an        *)
(*               Atelier logging await may reject.                         *)
(*   LiveSpec  - ConnSpec with every await settling and every due timer    *)
(*               firing (weak fairness).                                   *)
(*   StoreSpec - the accumulator driven by calls that do not overlap.      *)
(*   ConcSpec  - the accumulator with the store calls of overlapping       *)
(*               reinforcePathway / loadConductanceLandscape interleaved.  *)
(*   FaultSpec - the accumulator when a store query may fail.              *)
(*   ClassifierSpec - classifyMessage applied to utterances put together   *)
(*               from a small corpus of phrases.                           *)
(*   GateSpec  - enforceInvariants of either gate module of                *)
(*               services/invariant-gate.js applied to responses put       *)
(*               together from deltas.                                     *)
(*   PromptSpec - buildSystemPrompt of services/prompt-engine.js applied   *)
(*               to analysed utterances and conductance landscapes.        *)
(*   TimingSpec - a TimingTracker of services/backchannel.js marked and    *)
(*               read in any order.                                        *)
(*   BackchannelSpec - one sendBackchannel call of services/backchannel.js.*)
(*   AudioSpec - one streamAudioToClient call of server.js.                *)
(*   RegistrySpec - connections opening, registering as dashboards and     *)
(*               closing against the registry of services/atelier.js.      *)
(***************************************************************************)
EXTENDS Integers, Sequences, FiniteSets, TLC

\* ------------------------------------------------------------------ bounds
\* Final transcripts Deepgram delivers over the life of the connection.
MaxFragments == 3
\* Text deltas one LLM stream emits.
MaxChunks == 2
\* Final transcripts delivered to a connection of the streaming program.
MaxTranscripts == 2
\* Text deltas one LLM stream of the streaming program emits.
MaxDeltas == 2
\* reinforcePathway calls that reach the store, when calls do not overlap.
MaxReinforce == 6
\* reinforcePathway calls that reach the store, when calls overlap.
MaxOverlapping == 3
\* loadConductanceLandscape calls.
MaxLoads == 2
\* reinforcePathway calls that reach the store, when store calls may fail.
MaxFaultCalls == 3
\* Times the clock is advanced.
MaxTicks == 1
\* Transcribed phrases one classified utterance is put together from.
MaxPhrases == 3
\* logConductanceSession calls.
MaxSessions == 1
\* Deltas of the LLM stream in a response handed to the gate.
MaxDeltasGated == 2

\* buildSystemPrompt calls of a turn: the first and the regenerations
MaxAssemblies == 2

\* Mark calls on a TimingTracker
MaxMarks == 4

\* Advances of the clock between the calls on a TimingTracker
MaxElapses == 3

\* Chunks of the audio stream of a backchannel
MaxBackchannelChunks == 2

\* Chunks of the audio stream handed to streamAudioToClient
MaxAudioChunks == 4

\* Client connections the server accepts
MaxConnections == 3

VARIABLES
  \* ---- server.js, wss.on('connection') closure (lines 194-200)
  isResponding,         \* let isResponding = false
  currentTranscript,    \* let currentTranscript = '' (sequence of final transcripts)
  utteranceTimeout,     \* TRUE while the setTimeout of line 244 is pending
  conversationHistory,  \* let conversationHistory = [] (the role of each entry)
  releaseTimers,        \* number of pending setTimeout callbacks of line 358 / 707
  \* ---- processUtterance (lines 271-363)
  turns,                \* the running processUtterance bodies: id -> [pc, userMessage, fullResponse]
  nextTurn,             \* id of the next processUtterance body
  \* ---- the connection's collaborators and inputs
  events,               \* calls made to LLM, TTS and client socket since the last turn began
  nextFrag,             \* identity of the next final transcript
  arrivedInFlight,      \* final transcripts that arrived while a body was running
  ignored,              \* kinds of Deepgram events that arrived while a body was running
  \* ---- server.js holds two programs; a connection is served by one of them
  program,              \* "atelier" (lines 1-442) or "streaming" (lines 444-785)
  ttsPromises,          \* streaming: the TTS promises made and not yet settled
  closed                \* TRUE once the client socket's 'close' event was handled

turnVars == <<isResponding, currentTranscript, utteranceTimeout, conversationHistory,
              releaseTimers, turns, nextTurn, events, nextFrag, arrivedInFlight, ignored,
              program, ttsPromises, closed>>

VARIABLES
  \* ---- the Supabase tables of the conductance accumulator
  pathways,             \* conductance_pathways: the rows of the one userId followed
  nextId,               \* the id the table gives its next row
  sessions,             \* conductance_sessions: number of rows of the userId
  now,                  \* Date.now(), in whole days
  \* ---- running calls
  call,                 \* reinforcePathway, per caller: [pc, cls, before, existing]
  lpc,                  \* loadConductanceLandscape: position of the one loader
  updates,              \* applyDecay: const updates = [] (line 231), what is left to write
  selected,             \* loadConductanceLandscape: the rows of the query of line 178
  reinforceCalls,       \* reinforcePathway calls that reached the store so far
  loadCalls,            \* loadConductanceLandscape calls made so far
  ticks,                \* times the clock was advanced
  faults,               \* callers in whose latest call a store call failed
  \* ---- what the callers have seen
  trail                 \* the calls completed since the clock last advanced (see Push)

storeVars == <<pathways, nextId, sessions, now, call, lpc, updates, selected,
               reinforceCalls, loadCalls, ticks, faults, trail>>

VARIABLES
  \* ---- the classifier and its caller
  utterance,            \* the utterance put together so far
  heard,                \* number of phrases in it
  classification        \* what classifyMessage(message) returned, once called

classifierVars == <<utterance, heard, classification>>

VARIABLES
  \* ---- the invariant gate and its caller
  gateModule,           \* the gate module the caller loaded
  llmResponse,          \* the LLM response put together so far
  deltas,               \* number of deltas in it
  gateInput,            \* the classification handed to enforceInvariants
  gateResult            \* what enforceInvariants returned, once called

gateVars == <<gateModule, llmResponse, deltas, gateInput, gateResult>>

VARIABLES
  \* ---- the prompt engine and its caller
  analysis,             \* what analyzeMessage(message) returned, once called
  landscape,            \* the conductance data the caller holds, null before
  loaded,               \* TRUE when loadConductanceLandscape returned it
  prompt,               \* what buildSystemPrompt returned last
  assemblies            \* buildSystemPrompt calls made so far

promptVars == <<analysis, landscape, loaded, prompt, assemblies>>

VARIABLES
  \* ---- a TimingTracker and its caller
  utteranceEndTime,     \* this.utteranceEndTime
  backchannelSentTime,  \* this.backchannelSentTime
  firstContentTime,     \* this.firstContentTime
  responseCompleteTime, \* this.responseCompleteTime
  dateNow,              \* Date.now()
  timingReport,         \* what getReport() returned last
  marks,                \* mark calls made so far
  elapses               \* times the clock advanced so far

timingVars == <<utteranceEndTime, backchannelSentTime, firstContentTime,
                responseCompleteTime, dateNow, timingReport, marks, elapses>>

VARIABLES
  \* ---- sendBackchannel of services/backchannel.js
  bcPc,                 \* position of the one sendBackchannel call
  backchannel,          \* const backchannel (line 136)
  bcSocket,             \* the messages sent on ws
  bcChunks,             \* const chunks (line 169), each chunk by its size
  ttsConverts           \* textToSpeech.convert calls made

backchannelVars == <<bcPc, backchannel, bcSocket, bcChunks, ttsConverts>>

VARIABLES
  \* ---- streamAudioToClient of server.js
  audioPc,              \* position of the one streamAudioToClient call
  buffer,               \* let buffer (line 100)
  totalBytesSent,       \* let totalBytesSent (line 101)
  audioSocket,          \* the messages sent on ws
  received,             \* bytes the audio stream delivered so far
  audioChunks           \* chunks the audio stream delivered so far

audioVars == <<audioPc, buffer, totalBytesSent, audioSocket, received, audioChunks>>

senderVars == <<backchannelVars, audioVars>>

VARIABLES
  \* ---- services/atelier.js and the connection handler of server.js (184-437)
  activeConversations,  \* const activeConversations = new Map(): the sessionIds it holds
  connections,          \* each accepted connection: its handler's position, its socket, isAtelierDashboard
  supabase              \* TRUE when require('./supabase') gave a client, FALSE when null

registryVars == <<activeConversations, connections, supabase>>

vars == <<turnVars, storeVars, classifierVars, gateVars, promptVars, timingVars, senderVars,
          registryVars>>

\* ------------------------------------------------- LLM output (abstraction)
\* A text delta of the LLM stream, named by the phrase it carries:
\*   plain    "I hear you."
\*   referral "Please call 988 if you're in crisis."   (test-mra.js line 135)
\*   judging  "That was wrong and you know it."         (test-mra.js line 152)
\*   cue      "[smiles]"                                (an action cue)
Chunks == {"plain", "referral", "judging", "cue"}

\* The indices of the ABANDONMENT_PATTERNS a delta matches.
AbandonHits(c) == IF c = "referral" THEN {4, 7} ELSE {}

\* The indices of the JUDGMENT_PATTERNS a delta matches.
JudgeHits(c) == IF c = "judging" THEN {1} ELSE {}

\* cleanTextForTTS: bracketed and starred cues are removed, whitespace collapsed.
cleanTextForTTS(text) == SelectSeq(text, LAMBDA c : c # "cue")

\* The indices of the NARRATION_PATTERNS a delta matches.
NarrateHits(c) == {}

\* Whether a delta matches one of the highWeightCheer / exhaustionProbe patterns.
CheerHit(c) == FALSE
ProbeHit(c) == FALSE

\* Sentences (split on [.!?]+) and words (split on whitespace) a delta adds.
SentencesOf(c) == 1
WordsOf(c) == CASE c = "plain" -> 3 [] c = "cue" -> 1 [] OTHER -> 7

\* The sum of a sequence of numbers.
RECURSIVE Sum(_)
Sum(q) == IF q = <<>> THEN 0 ELSE Head(q) + Sum(Tail(q))

Repeat(v, n) == [i \in 1..n |-> v]

\* ------------------------------------ services/invariant-gate.js (1-349)
\* A classification as the gate reads it: weight and whether a resistance
\* signal asks for comfort_mode.
Weights == {1, 3, 8, 13, 21}
GateClassifications == [weight : Weights, comfortMode : BOOLEAN]

checkNeverAbandons(response) ==
  Repeat([invariant |-> "NEVER_ABANDONS", severity |-> "CRITICAL"],
         Cardinality(UNION {AbandonHits(response[i]) : i \in DOMAIN response}))

checkNeverJudges(response) ==
  Repeat([invariant |-> "NEVER_JUDGES", severity |-> "HIGH"],
         Cardinality(UNION {JudgeHits(response[i]) : i \in DOMAIN response}))

checkNeverNarrates(response) ==
  Repeat([invariant |-> "NEVER_NARRATES", severity |-> "HIGH"],
         Cardinality(UNION {NarrateHits(response[i]) : i \in DOMAIN response}))

checkNeverFills(response, currentWeight) ==
  LET sentences == Sum([i \in DOMAIN response |-> SentencesOf(response[i])])
      wordCount == Sum([i \in DOMAIN response |-> WordsOf(response[i])])
      tooMany == IF sentences > 3
                 THEN <<[invariant |-> "NEVER_FILLS", severity |-> "MEDIUM"]>> ELSE <<>>
      tooLong == IF currentWeight >= 13 /\ wordCount > 50
                 THEN <<[invariant |-> "NEVER_FILLS", severity |-> "HIGH"]>> ELSE <<>>
  IN IF currentWeight >= 8 THEN tooMany \o tooLong ELSE <<>>

checkAlwaysCalibrates(response, currentWeight, comfortMode) ==
  LET v == [invariant |-> "ALWAYS_CALIBRATES", severity |-> "MEDIUM"]
      cheer == IF currentWeight >= 13 /\ \E i \in DOMAIN response : CheerHit(response[i])
               THEN <<v>> ELSE <<>>
      probe == IF comfortMode /\ \E i \in DOMAIN response : ProbeHit(response[i])
               THEN <<v>> ELSE <<>>
  IN cheer \o probe

enforceInvariants(response, classificationResult) ==
  LET weight == classificationResult.weight
      allViolations ==
        checkNeverAbandons(response)
        \o checkAlwaysCalibrates(response, weight, classificationResult.comfortMode)
        \o checkNeverJudges(response)
        \o checkNeverFills(response, weight)
        \o checkNeverNarrates(response)
      hasCritical == \E i \in DOMAIN allViolations : allViolations[i].severity = "CRITICAL"
  IN [pass |-> Len(allViolations) = 0,
      violations |-> allViolations,
      hasCritical |-> hasCritical,
      requiresRegeneration |-> hasCritical]

\* ---------------------------------------- server.js, one connection (184-437)
Ev(kind, text) == [kind |-> kind, text |-> text]

Running == DOMAIN turns

\* The function f without the key k.
Without(f, k) == [x \in DOMAIN f \ {k} |-> f[x]]

\* What the observer notes when a Deepgram event arrives: its kind, when a
\* processUtterance body is running.
Note(kind) == IF Running # {} THEN ignored \cup {kind} ELSE ignored

\* conversationHistory.push(m); if (length > 20) slice(-20)       (lines 279-283)
HISTORY_LIMIT == 20
TrimHistory(h) ==
  IF Len(h) > HISTORY_LIMIT THEN SubSeq(h, Len(h) - HISTORY_LIMIT + 1, Len(h)) ELSE h

\* try/catch/finally exit of the body t (lines 354-362): the body is over and
\* the 500 ms timer that clears isResponding is armed.
Finally(t) ==
  /\ turns' = Without(turns, t)
  /\ releaseTimers' = releaseTimers + 1

\* processUtterance() without line 276 (isResponding is never set).
processUtteranceEntryNoLock(cause) ==
  IF currentTranscript = <<>> \/ isResponding
  THEN /\ ignored' = Note(cause)
       /\ UNCHANGED <<isResponding, currentTranscript, conversationHistory, turns,
                      nextTurn, events>>
  ELSE /\ turns' = [x \in Running \cup {nextTurn} |->
                      IF x = nextTurn
                      THEN [pc |-> "logUser", userMessage |-> currentTranscript,
                            fullResponse |-> <<>>]
                      ELSE turns[x]]
       /\ nextTurn' = nextTurn + 1
       /\ currentTranscript' = <<>>
       /\ conversationHistory' = TrimHistory(Append(conversationHistory, "user"))
       /\ events' = IF Running = {} THEN <<>> ELSE events
       /\ ignored' = IF Running = {} THEN {} ELSE Note(cause)
       /\ UNCHANGED isResponding

\* processUtterance(), from its entry to its first await (lines 271-287).
\* Returns at once when there is no transcript or a turn is in flight.
processUtteranceEntry(cause) ==
  IF currentTranscript = <<>> \/ isResponding
  THEN /\ ignored' = Note(cause)
       /\ UNCHANGED <<isResponding, currentTranscript, conversationHistory, turns,
                      nextTurn, events>>
  ELSE /\ turns' = [x \in Running \cup {nextTurn} |->
                      IF x = nextTurn
                      THEN [pc |-> "logUser", userMessage |-> currentTranscript,
                            fullResponse |-> <<>>]
                      ELSE turns[x]]
       /\ nextTurn' = nextTurn + 1
       /\ currentTranscript' = <<>>
       /\ isResponding' = TRUE
       /\ conversationHistory' = TrimHistory(Append(conversationHistory, "user"))
       /\ events' = IF Running = {} THEN <<>> ELSE events
       /\ ignored' = IF Running = {} THEN {} ELSE Note(cause)

\* deepgramWs.on('message'), type Results with a non-empty final transcript
\* (lines 232-246).
FinalTranscript ==
  /\ program = "atelier"
  /\ ~closed
  /\ nextFrag <= MaxFragments
  /\ nextFrag' = nextFrag + 1
  /\ arrivedInFlight' = IF Running # {} THEN arrivedInFlight \cup {nextFrag}
                        ELSE arrivedInFlight
  /\ ignored' = Note("final_transcript")
  /\ IF ~isResponding
     THEN /\ currentTranscript' = Append(currentTranscript, nextFrag)
          /\ utteranceTimeout' = TRUE
     ELSE UNCHANGED <<currentTranscript, utteranceTimeout>>
  /\ UNCHANGED <<registryVars, senderVars, timingVars, promptVars, gateVars, classifierVars, program, closed, ttsPromises, storeVars, isResponding, conversationHistory, releaseTimers, turns, nextTurn, events>>

\* deepgramWs.on('message'), type UtteranceEnd (lines 247-250).
UtteranceEnd ==
  /\ program = "atelier"
  /\ ~closed
  /\ utteranceTimeout' = FALSE
  /\ processUtteranceEntry("utterance_end")
  /\ UNCHANGED <<registryVars, senderVars, timingVars, promptVars, gateVars, classifierVars, program, closed, ttsPromises, storeVars, releaseTimers, nextFrag, arrivedInFlight>>

\* deepgramWs.on('message'), type SpeechStarted (lines 251-253).
SpeechStarted ==
  /\ ~closed
  /\ utteranceTimeout
  /\ utteranceTimeout' = FALSE
  /\ UNCHANGED <<registryVars, senderVars, timingVars, promptVars, gateVars, classifierVars, program, closed, ttsPromises, storeVars, isResponding, currentTranscript, conversationHistory, releaseTimers,
                 turns, nextTurn, events, nextFrag, arrivedInFlight, ignored>>

\* The timer of line 244 fires: processUtterance().
UtteranceTimeoutFires ==
  /\ utteranceTimeout
  /\ utteranceTimeout' = FALSE
  /\ processUtteranceEntry("timeout")
  /\ UNCHANGED <<registryVars, senderVars, timingVars, promptVars, gateVars, classifierVars, program, closed, ttsPromises, storeVars, releaseTimers, nextFrag, arrivedInFlight>>

\* The body t moves to position p.
Goto(t, p) == turns' = [turns EXCEPT ![t].pc = p]

\* The Atelier logging awaits end (lines 285-300); the try block opens the LLM
\* stream (lines 303-312).
StartGeneration ==
  \E t \in Running :
    /\ turns[t].pc = "logUser"
    /\ Goto(t, "llm")
    /\ events' = Append(events, Ev("llm_call", <<>>))
    /\ UNCHANGED <<registryVars, senderVars, timingVars, promptVars, gateVars, classifierVars, program, closed, ttsPromises, storeVars, isResponding, currentTranscript, utteranceTimeout, conversationHistory,
                   releaseTimers, nextTurn, nextFrag, arrivedInFlight, ignored>>

\* stream.on('text'): the delta is appended and forwarded to the client
\* (lines 314-317).
StreamText ==
  \E t \in Running :
    /\ turns[t].pc = "llm"
    /\ Len(turns[t].fullResponse) < MaxChunks
    /\ \E c \in Chunks :
         /\ turns' = [turns EXCEPT ![t].fullResponse = Append(@, c)]
         /\ events' = Append(events, Ev("response_text", <<c>>))
    /\ UNCHANGED <<registryVars, senderVars, timingVars, promptVars, gateVars, classifierVars, program, closed, ttsPromises, storeVars, isResponding, currentTranscript, utteranceTimeout, conversationHistory,
                   releaseTimers, nextTurn, nextFrag, arrivedInFlight, ignored>>

\* await stream.finalMessage() resolves (line 319); Atelier logs the response
\* (lines 322-330).
GenerationComplete ==
  \E t \in Running :
    /\ turns[t].pc = "llm"
    /\ Goto(t, "logAline")
    /\ UNCHANGED <<registryVars, senderVars, timingVars, promptVars, gateVars, classifierVars, program, closed, ttsPromises, storeVars, isResponding, currentTranscript, utteranceTimeout, conversationHistory,
                   releaseTimers, nextTurn, events, nextFrag, arrivedInFlight, ignored>>

\* await stream.finalMessage() rejects: catch sends the error, finally runs
\* (lines 354-362).
GenerationFails ==
  \E t \in Running :
    /\ turns[t].pc = "llm"
    /\ events' = Append(events, Ev("error", <<>>))
    /\ Finally(t)
    /\ UNCHANGED <<registryVars, senderVars, timingVars, promptVars, gateVars, classifierVars, program, closed, ttsPromises, storeVars, isResponding, currentTranscript, utteranceTimeout, conversationHistory,
                   nextTurn, nextFrag, arrivedInFlight, ignored>>

\* Lines 332-344: the cleaned text, when not empty, is handed to
\* elevenlabs.textToSpeech.convert; otherwise the turn completes without audio
\* (lines 350-352).
Synthesize ==
  \E t \in Running :
    /\ turns[t].pc = "logAline"
    /\ LET cleanText == cleanTextForTTS(turns[t].fullResponse)
       IN IF Len(cleanText) > 0
          THEN /\ events' = Append(events, Ev("tts", cleanText))
               /\ Goto(t, "tts")
               /\ UNCHANGED <<conversationHistory, releaseTimers>>
          ELSE /\ conversationHistory' = Append(conversationHistory, "assistant")
               /\ events' = Append(events, Ev("response_complete", turns[t].fullResponse))
               /\ Finally(t)
    /\ UNCHANGED <<registryVars, senderVars, timingVars, promptVars, gateVars, classifierVars, program, closed, ttsPromises, storeVars, isResponding, currentTranscript, utteranceTimeout, nextTurn, nextFrag,
                   arrivedInFlight, ignored>>

\* The TTS call resolves and streamAudioToClient forwards the audio
\* (lines 346-352).
DeliverAudio ==
  \E t \in Running :
    /\ turns[t].pc = "tts"
    /\ conversationHistory' = Append(conversationHistory, "assistant")
    /\ events' = events \o <<Ev("audio", cleanTextForTTS(turns[t].fullResponse)),
                             Ev("response_complete", turns[t].fullResponse)>>
    /\ Finally(t)
    /\ UNCHANGED <<registryVars, senderVars, timingVars, promptVars, gateVars, classifierVars, program, closed, ttsPromises, storeVars, isResponding, currentTranscript, utteranceTimeout, nextTurn, nextFrag,
                   arrivedInFlight, ignored>>

\* The TTS call (or the audio stream) rejects: catch, finally (lines 354-362).
SynthesisFails ==
  \E t \in Running :
    /\ turns[t].pc = "tts"
    /\ events' = Append(events, Ev("error", <<>>))
    /\ Finally(t)
    /\ UNCHANGED <<registryVars, senderVars, timingVars, promptVars, gateVars, classifierVars, program, closed, ttsPromises, storeVars, isResponding, currentTranscript, utteranceTimeout, conversationHistory,
                   nextTurn, nextFrag, arrivedInFlight, ignored>>

\* A timer of line 358 (or 707) fires: isResponding = false (lines 358-361,
\* 707-710).
ReleaseTurn ==
  /\ releaseTimers > 0
  /\ releaseTimers' = releaseTimers - 1
  /\ isResponding' = FALSE
  /\ UNCHANGED <<registryVars, senderVars, timingVars, promptVars, gateVars, classifierVars, program, closed, ttsPromises, storeVars, currentTranscript, utteranceTimeout, conversationHistory, turns,
                 nextTurn, events, nextFrag, arrivedInFlight, ignored>>

\* ------------------- server.js, the second program's connection (532-773)
\* It has no utterance timer and no processUtterance: the turn is the body of
\* the utterance_end handler, and TTS is requested sentence by sentence while
\* the LLM streams.

\* The deltas of the LLM stream that this program tells apart: text that
\* cleanTextForTTS keeps, and a stage direction that it removes entirely.
StreamChunks == {"plain", "cue"}

\* ttsPromises of the body t that are not settled yet.
Pending(t) == IF t \in DOMAIN ttsPromises THEN ttsPromises[t] ELSE 0

\* A TTS request of lines 645-667 / 674-697 for the body t: when the cleaned
\* text is not empty, the request is made and its detached promise is pushed.
Speak(t, q, cleanText) ==
  IF Len(cleanText) > 0
  THEN /\ events' = Append(q, Ev("tts", <<>>))
       /\ ttsPromises' = [x \in DOMAIN ttsPromises \cup {t} |->
                            IF x = t THEN Pending(t) + 1 ELSE ttsPromises[x]]
  ELSE /\ events' = q
       /\ UNCHANGED ttsPromises

\* One promise of the body t settles.
Settle(t) ==
  ttsPromises' = IF ttsPromises[t] = 1 THEN Without(ttsPromises, t)
                 ELSE [ttsPromises EXCEPT ![t] = @ - 1]

\* deepgramConnection.on('transcript') with a non-empty final transcript
\* (lines 570-599).
Transcript ==
  /\ program = "streaming"
  /\ ~closed
  /\ nextFrag <= MaxTranscripts
  /\ nextFrag' = nextFrag + 1
  /\ arrivedInFlight' = IF Running # {} THEN arrivedInFlight \cup {nextFrag}
                        ELSE arrivedInFlight
  /\ ignored' = Note("final_transcript")
  /\ currentTranscript' = IF ~isResponding THEN Append(currentTranscript, nextFrag)
                          ELSE currentTranscript
  /\ UNCHANGED <<registryVars, senderVars, timingVars, promptVars, gateVars, classifierVars, program, closed, ttsPromises, storeVars, isResponding, utteranceTimeout,
                 conversationHistory, releaseTimers, turns, nextTurn, events>>

\* deepgramConnection.on('utterance_end'), up to await stream.finalMessage()
\* (lines 602-631): nothing happens without a transcript or with a turn in flight.
UtteranceEndStreaming ==
  /\ program = "streaming"
  /\ ~closed
  /\ IF currentTranscript # <<>> /\ ~isResponding
     THEN /\ turns' = [x \in Running \cup {nextTurn} |->
                         IF x = nextTurn
                         THEN [pc |-> "stream", userMessage |-> currentTranscript,
                               fullResponse |-> <<>>, ttsBuffer |-> <<>>]
                         ELSE turns[x]]
          /\ nextTurn' = nextTurn + 1
          /\ currentTranscript' = <<>>
          /\ isResponding' = TRUE
          /\ conversationHistory' = TrimHistory(Append(conversationHistory, "user"))
          /\ events' = Append(IF Running = {} THEN <<>> ELSE events, Ev("llm_call", <<>>))
          /\ ignored' = IF Running = {} THEN {} ELSE Note("utterance_end")
     ELSE /\ ignored' = Note("utterance_end")
          /\ UNCHANGED <<isResponding, currentTranscript, conversationHistory, turns,
                         nextTurn, events>>
  /\ UNCHANGED <<registryVars, senderVars, timingVars, promptVars, gateVars, classifierVars, program, closed, ttsPromises, storeVars, utteranceTimeout, releaseTimers, nextFrag,
                 arrivedInFlight>>

\* stream.on('text') (lines 633-669): the delta is appended and forwarded; when
\* the buffer holds a finished sentence (flush) it is cleaned and spoken.
StreamTextStreaming ==
  \E t \in Running :
    /\ turns[t].pc = "stream"
    /\ Len(turns[t].fullResponse) < MaxDeltas
    /\ \E c \in StreamChunks, flush \in BOOLEAN :
         LET sent == Append(events, Ev("response_text", <<>>))
             ttsBuffer == Append(turns[t].ttsBuffer, c)
         IN IF flush
            THEN /\ Speak(t, sent, cleanTextForTTS(ttsBuffer))
                 /\ turns' = [turns EXCEPT ![t].fullResponse = Append(@, c),
                                           ![t].ttsBuffer = <<>>]
            ELSE /\ events' = sent
                 /\ turns' = [turns EXCEPT ![t].fullResponse = Append(@, c),
                                           ![t].ttsBuffer = ttsBuffer]
                 /\ UNCHANGED ttsPromises
    /\ UNCHANGED <<registryVars, senderVars, timingVars, promptVars, gateVars, classifierVars, program, closed, storeVars, isResponding, currentTranscript, utteranceTimeout,
                   conversationHistory, releaseTimers, nextTurn, nextFrag,
                   arrivedInFlight, ignored>>

\* await stream.finalMessage() resolves: what is left in the buffer is spoken
\* and the body waits for its TTS promises (lines 671-700).
GenerationCompleteStreaming ==
  \E t \in Running :
    /\ turns[t].pc = "stream"
    /\ Speak(t, events, cleanTextForTTS(turns[t].ttsBuffer))
    /\ turns' = [turns EXCEPT ![t].pc = "join", ![t].ttsBuffer = <<>>]
    /\ UNCHANGED <<registryVars, senderVars, timingVars, promptVars, gateVars, classifierVars, program, closed, storeVars, isResponding, currentTranscript, utteranceTimeout,
                   conversationHistory, releaseTimers, nextTurn, nextFrag,
                   arrivedInFlight, ignored>>

\* await stream.finalMessage() rejects: catch sends the error and clears
\* isResponding at once (lines 712-716); TTS promises already made stay pending.
GenerationFailsStreaming ==
  \E t \in Running :
    /\ turns[t].pc = "stream"
    /\ events' = Append(events, Ev("error", <<>>))
    /\ isResponding' = FALSE
    /\ turns' = Without(turns, t)
    /\ UNCHANGED <<registryVars, senderVars, timingVars, promptVars, gateVars, classifierVars, program, closed, ttsPromises, storeVars, currentTranscript, utteranceTimeout,
                   conversationHistory, releaseTimers, nextTurn, nextFrag,
                   arrivedInFlight, ignored>>

\* A TTS promise delivers its audio: ws.send(audioBuffer) (lines 649-660).
DeliverChunkAudio ==
  \E t \in DOMAIN ttsPromises :
    /\ Settle(t)
    /\ events' = Append(events, Ev("audio", <<>>))
    /\ UNCHANGED <<registryVars, senderVars, timingVars, promptVars, gateVars, classifierVars, program, closed, storeVars, isResponding, currentTranscript, utteranceTimeout,
                   conversationHistory, releaseTimers, turns, nextTurn, nextFrag,
                   arrivedInFlight, ignored>>

\* A TTS promise fails; its own catch logs the error (lines 661-663).
ChunkSynthesisFails ==
  \E t \in DOMAIN ttsPromises :
    /\ Settle(t)
    /\ UNCHANGED <<registryVars, senderVars, timingVars, promptVars, gateVars, classifierVars, program, closed, storeVars, isResponding, currentTranscript, utteranceTimeout,
                   conversationHistory, releaseTimers, turns, nextTurn, events, nextFrag,
                   arrivedInFlight, ignored>>

\* await Promise.all(ttsPromises) resolves: the response is recorded and the
\* 1500 ms timer that clears isResponding is armed (lines 700-710).
ResponseComplete ==
  \E t \in Running :
    /\ turns[t].pc = "join"
    /\ Pending(t) = 0
    /\ conversationHistory' = Append(conversationHistory, "assistant")
    /\ events' = Append(events, Ev("response_complete", turns[t].fullResponse))
    /\ turns' = Without(turns, t)
    /\ releaseTimers' = releaseTimers + 1
    /\ UNCHANGED <<registryVars, senderVars, timingVars, promptVars, gateVars, classifierVars, program, closed, ttsPromises, storeVars, isResponding, currentTranscript,
                   utteranceTimeout, nextTurn, nextFrag, arrivedInFlight, ignored>>

\* ws.on('close') (lines 415-432, 768-774): the Deepgram connection is closed;
\* the running processUtterance body, the utterance timer and the release
\* timers are left as they are.
Close ==
  /\ ~closed
  /\ closed' = TRUE
  /\ UNCHANGED <<registryVars, senderVars, timingVars, promptVars, gateVars, classifierVars, program, ttsPromises, storeVars, isResponding, currentTranscript,
                 utteranceTimeout, conversationHistory, releaseTimers, turns, nextTurn,
                 events, nextFrag, arrivedInFlight, ignored>>

\* One of the Atelier logging awaits of lines 287-299 rejects: they stand before
\* the try of line 302, so processUtterance ends there; neither catch nor
\* finally runs and no release timer is armed.
LoggingFails ==
  \E t \in Running :
    /\ turns[t].pc = "logUser"
    /\ turns' = Without(turns, t)
    /\ UNCHANGED <<registryVars, senderVars, timingVars, promptVars, gateVars, classifierVars, program, closed, ttsPromises, storeVars, isResponding,
                   currentTranscript, utteranceTimeout, conversationHistory,
                   releaseTimers, nextTurn, events, nextFrag, arrivedInFlight, ignored>>

Programs == {"atelier", "streaming"}

TurnInit ==
  /\ program \in Programs
  /\ ttsPromises = <<>>
  /\ closed = FALSE
  /\ isResponding = FALSE
  /\ currentTranscript = <<>>
  /\ utteranceTimeout = FALSE
  /\ conversationHistory = <<>>
  /\ releaseTimers = 0
  /\ turns = <<>>
  /\ nextTurn = 1
  /\ events = <<>>
  /\ nextFrag = 1
  /\ arrivedInFlight = {}
  /\ ignored = {}

\* ================================================= conductance accumulator
\* Fractions (conductance, rates, thresholds) are integers in units of 1/Scale;
\* a product of two fractions is rounded to the nearest unit.
Scale == 10000

Mul(a, b) == (a * b + Scale \div 2) \div Scale

Min(a, b) == IF a <= b THEN a ELSE b

Max(a, b) == IF a >= b THEN a ELSE b

\* CONDUCTANCE_CONFIG (lines 29-51).
reinforcementRate == (15 * Scale) \div 100

maxConductance == 1 * Scale

decayRate == (2 * Scale) \div 100

minConductance == 0 * Scale

maxPathwaysPerUser == 50

pruneThreshold == (5 * Scale) \div 100

staleAgeDays == 90

\* Days the clock advances by in one step: within a day nothing is decayed, past
\* staleAgeDays a pathway is stale.
TickSteps == {1, 91}

\* null, as a row and as a theme.
NoRow == [id |-> 0]

NoTheme == ""

\* ---- classificationResult values handed to reinforcePathway.  The first three
\* have the shape classifyMessage returns for
\*   "ok"                                                   W1  noise
\*   "the pain is back"                                     W8  physiology / health
\*   "years ago it happened, the abuse, it still haunts
\*    me, i never told anyone"                              W21 psychology / trauma
\* (of a dimension only its type and the categories of its markers are kept);
\* the last has no dimensions entry, the case line 154 provides for.
Depth(isDeep, isCovenant) == [isDeep |-> isDeep, isCovenant |-> isCovenant]

Classification(weight, dimension, dimensions, confessionDepth) ==
  [weight |-> weight, dimension |-> dimension, dimensions |-> dimensions,
   confessionDepth |-> confessionDepth]

clsNoise ==
  Classification(1, "noise", <<[type |-> "noise", markers |-> <<>>]>>, Depth(FALSE, FALSE))

clsHealth ==
  Classification(8, "physiology", <<[type |-> "physiology", markers |-> <<"health">>]>>,
                 Depth(FALSE, FALSE))

clsTrauma ==
  Classification(21, "psychology", <<[type |-> "psychology", markers |-> <<"trauma">>]>>,
                 Depth(TRUE, TRUE))

clsNoDimensions ==
  Classification(21, "psychology", <<>>, Depth(FALSE, FALSE))

Classifications == {clsNoise, clsHealth, clsTrauma, clsNoDimensions}

\* extractTheme (lines 152-163).  A marker is held by its category; a dimension
\* without markers has no categories either, so its type is the theme.
extractTheme(classificationResult) ==
  LET dimensions == classificationResult.dimensions
  IN IF Len(dimensions) = 0 THEN NoTheme
     ELSE LET primary == dimensions[1]
          IN IF Len(primary.markers) = 0 THEN primary.type
             ELSE primary.markers[1]

\* .eq('dimension', dimension).eq('theme', theme) (lines 73-75).
Matching(rows, dimension, theme) ==
  {r \in rows : r.dimension = dimension /\ r.theme = theme}

\* .single(): the row when exactly one row matches, null otherwise (line 76).
Single(rows) == IF Cardinality(rows) = 1 THEN CHOOSE r \in rows : TRUE ELSE NoRow

\* daysSince (lines 317-320); every row carries its timestamps.
daysSince(day) == now - day

\* Lines 60-66 without the weight test.
rejectsNoWeightTest(classificationResult) ==
  extractTheme(classificationResult) = NoTheme

\* Lines 60-66 with the weight test one tier too high.
rejectsBelowW13(classificationResult) ==
  \/ classificationResult.weight < 13
  \/ extractTheme(classificationResult) = NoTheme

\* Lines 60-66: the classifications reinforcePathway returns null for at once.
rejects(classificationResult) ==
  \/ classificationResult.weight < 5
  \/ extractTheme(classificationResult) = NoTheme

\* Line 86, as a fraction.
weightMultiplier(weight) ==
  IF weight >= 21 THEN 2 * Scale
  ELSE IF weight >= 13 THEN (15 * Scale) \div 10
  ELSE IF weight >= 8 THEN (12 * Scale) \div 10
  ELSE 1 * Scale

\* Line 87.
depthBonus(confessionDepth) ==
  IF confessionDepth.isCovenant THEN Scale \div 10
  ELSE IF confessionDepth.isDeep THEN (5 * Scale) \div 100
  ELSE 0

\* Lines 81-92 without Math.min.
newConductanceNoCeiling(currentConductance, classificationResult) ==
  LET headroom == maxConductance - currentConductance
      increment == Mul(reinforcementRate, (headroom * Scale) \div maxConductance)
  IN currentConductance
       + Mul(increment, weightMultiplier(classificationResult.weight))
       + depthBonus(classificationResult.confessionDepth)

\* Lines 81-92: the conductance an existing pathway is reinforced to.
newConductance(currentConductance, classificationResult) ==
  LET headroom == maxConductance - currentConductance
      increment == Mul(reinforcementRate, (headroom * Scale) \div maxConductance)
  IN Min(maxConductance,
         currentConductance
           + Mul(increment, weightMultiplier(classificationResult.weight))
           + depthBonus(classificationResult.confessionDepth))

\* Line 116.
initialConductance(weight) ==
  IF weight >= 21 THEN (3 * Scale) \div 10
  ELSE IF weight >= 13 THEN (2 * Scale) \div 10
  ELSE Scale \div 10

\* Math.exp(-decayRate * 1): the series 1 - x + x^2/2 - x^3/6.
ExpOneDay ==
  Scale - decayRate + Mul(decayRate, decayRate) \div 2
        - Mul(Mul(decayRate, decayRate), decayRate) \div 6

\* Math.exp(-decayRate * days) (line 238), by repeated squaring.
RECURSIVE decayFactor(_)
decayFactor(days) ==
  IF days <= 0 THEN Scale
  ELSE IF days % 2 = 0
       THEN LET half == decayFactor(days \div 2) IN Mul(half, half)
       ELSE Mul(decayFactor(days - 1), ExpOneDay)

\* Lines 233-247: the update applyDecay computes for one row, NoRow for none.
decayUpdate(pathway) ==
  LET daysSinceReinforcement == daysSince(pathway.last_reinforced)
      decayed == Mul(pathway.conductance, decayFactor(daysSinceReinforcement))
      change == IF decayed >= pathway.conductance THEN decayed - pathway.conductance
                ELSE pathway.conductance - decayed
  IN IF daysSinceReinforcement < 1 THEN NoRow
     ELSE IF change > Scale \div 1000
          THEN [id |-> pathway.id, conductance |-> Max(minConductance, decayed)]
          ELSE NoRow

\* The rows of a set in the order of their ids.
RECURSIVE ById(_)
ById(rows) ==
  IF rows = {} THEN <<>>
  ELSE LET first == CHOOSE r \in rows : \A o \in rows : r.id <= o.id
       IN <<first>> \o ById(rows \ {first})

\* .update(fields).eq('id', id): the table with the conductance of row id set.
setConductance(rows, id, conductance) ==
  {IF r.id = id THEN [r EXCEPT !.conductance = conductance] ELSE r : r \in rows}

\* Lines 279-284 without the conductance filter.
staleNoFloor(rows) ==
  {r \in rows : r.last_reinforced < now - staleAgeDays}

\* Lines 276-284: the rows prunePathways deletes.
stale(rows) ==
  {r \in rows : /\ r.conductance < pruneThreshold
                /\ r.last_reinforced < now - staleAgeDays}

\* .gt('conductance', minConductance + 0.01).order('conductance', descending)
\* .limit(maxPathwaysPerUser) (lines 182-184): every order the query may return
\* its rows in; rows of equal conductance come in any order.
selectLandscape(rows) ==
  LET visible == {r \in rows : r.conductance > minConductance + Scale \div 100}
      n == Cardinality(visible)
      orders == {q \in [1..n -> visible] :
                   /\ \A i, j \in 1..n : i # j => q[i] # q[j]
                   /\ \A i \in 1..n : i < n => q[i].conductance >= q[i + 1].conductance}
  IN {SubSeq(q, 1, Min(n, maxPathwaysPerUser)) : q \in orders}

\* Lines 198-205: a row as the landscape presents it.
presented(p) ==
  [dimension |-> p.dimension, theme |-> p.theme, conductance |-> p.conductance,
   reinforcementCount |-> p.reinforcement_count, maxWeightSeen |-> p.max_weight_seen,
   daysSinceReinforced |-> daysSince(p.last_reinforced)]

\* The largest conductance stored for the pathway a classification names, 0 when
\* none is stored.
storedConductance(rows, classificationResult) ==
  LET found == Matching(rows, classificationResult.dimension, extractTheme(classificationResult))
  IN IF found = {} THEN 0
     ELSE (CHOOSE r \in found : \A o \in found : r.conductance >= o.conductance).conductance

\* The trail after call x completes: the call, and before a load the call that
\* completed last before it.
Push(q, x) == IF x.op = "load" /\ q # <<>> THEN <<q[Len(q)], x>> ELSE <<x>>

Procs == {1, 2}

\* The caller of loadConductanceLandscape.
Loader == 0

Idle == lpc = "idle" /\ \A p \in Procs : call[p].pc = "idle"

\* ---- what the callers have seen: one entry of the trail per completed call
Reinforced(classificationResult, before, returned) ==
  [op |-> "reinforce", cls |-> classificationResult, before |-> before,
   returned |-> returned]

Loaded(result) == [op |-> "load", result |-> result]

\* No call of caller p is running.
NoCall == [pc |-> "idle", cls |-> clsNoise, before |-> 0, existing |-> NoRow]

\* ---- reinforcePathway (lines 58-145), caller p
\* From the entry to the query of line 70 (lines 58-69): null at once for a
\* classification below W5 or without a theme.
reinforcePathwayCall(p, classificationResult) ==
  /\ call[p].pc = "idle"
  /\ LET before == storedConductance(pathways, classificationResult)
     IN IF rejects(classificationResult)
        THEN /\ trail' = Push(trail, Reinforced(classificationResult, before, NoRow))
             /\ UNCHANGED <<call, reinforceCalls>>
        ELSE /\ call' = [call EXCEPT ![p] = [pc |-> "select", cls |-> classificationResult,
                                             before |-> before, existing |-> NoRow]]
             /\ reinforceCalls' = reinforceCalls + 1
             /\ UNCHANGED trail
  /\ faults' = faults \ {p}
  /\ UNCHANGED <<registryVars, senderVars, timingVars, promptVars, gateVars, classifierVars, turnVars, pathways, nextId, sessions, now, lpc, updates, selected,
                 loadCalls, ticks>>

\* The query of lines 70-76 answers.
reinforcePathwaySelect(p) ==
  /\ call[p].pc = "select"
  /\ LET c == call[p].cls
     IN call' = [call EXCEPT ![p].pc = "write",
                             ![p].existing =
                                Single(Matching(pathways, c.dimension, extractTheme(c)))]
  /\ UNCHANGED <<registryVars, senderVars, timingVars, promptVars, gateVars, classifierVars, turnVars, faults, pathways, nextId, sessions, now, lpc, updates, selected,
                 reinforceCalls, loadCalls, ticks, trail>>

\* The update of lines 94-104 or the insert of lines 118-131 runs and the call
\* returns (lines 106-112, 133-139).
reinforcePathwayWrite(p) ==
  /\ call[p].pc = "write"
  /\ LET c == call[p].cls
         existing == call[p].existing
         inserted == [id |-> nextId, dimension |-> c.dimension, theme |-> extractTheme(c),
                      conductance |-> initialConductance(c.weight),
                      last_reinforced |-> now, reinforcement_count |-> 1,
                      max_weight_seen |-> c.weight, created_at |-> now]
         updated(r) == [r EXCEPT !.conductance = newConductance(existing.conductance, c),
                                 !.last_reinforced = now,
                                 !.reinforcement_count = existing.reinforcement_count + 1,
                                 !.max_weight_seen = Max(existing.max_weight_seen, c.weight)]
         return(data) == trail' = Push(trail, Reinforced(c, call[p].before, data))
     IN IF existing # NoRow
        THEN IF \E r \in pathways : r.id = existing.id
             THEN LET row == CHOOSE r \in pathways : r.id = existing.id
                  IN /\ pathways' = (pathways \ {row}) \cup {updated(row)}
                     /\ return(updated(row))
                     /\ UNCHANGED nextId
             ELSE /\ return(NoRow)
                  /\ UNCHANGED <<pathways, nextId>>
        ELSE /\ pathways' = pathways \cup {inserted}
             /\ nextId' = nextId + 1
             /\ return(inserted)
  /\ call' = [call EXCEPT ![p] = NoCall]
  /\ UNCHANGED <<registryVars, senderVars, timingVars, promptVars, gateVars, classifierVars, turnVars, faults, sessions, now, lpc, updates, selected, reinforceCalls,
                 loadCalls, ticks>>

\* ---- loadConductanceLandscape (lines 170-212)
\* From the entry to the query of applyDecay (lines 170-175, 219-226).
loadConductanceLandscapeCall ==
  /\ lpc = "idle"
  /\ lpc' = "decay"
  /\ loadCalls' = loadCalls + 1
  /\ faults' = faults \ {Loader}
  /\ UNCHANGED <<registryVars, senderVars, timingVars, promptVars, gateVars, classifierVars, turnVars, pathways, nextId, sessions, now, call, updates, selected,
                 reinforceCalls, ticks, trail>>

\* applyDecay: the query of line 223 answers and the updates are computed
\* (lines 228-247).  Without rows applyDecay returns before it prunes.
applyDecayRead ==
  /\ lpc = "decay"
  /\ LET rows == ById(pathways)
         all == [i \in DOMAIN rows |-> decayUpdate(rows[i])]
         due == SelectSeq(all, LAMBDA u : u # NoRow)
     IN /\ updates' = due
        /\ lpc' = IF pathways = {} THEN "select"
                  ELSE IF due = <<>> THEN "prune" ELSE "write"
  /\ UNCHANGED <<registryVars, senderVars, timingVars, promptVars, gateVars, classifierVars, turnVars, faults, pathways, nextId, sessions, now, call, selected,
                 reinforceCalls, loadCalls, ticks, trail>>

\* applyDecay: one update of the loop of lines 250-255.
applyDecayWrite ==
  /\ lpc = "write"
  /\ pathways' = setConductance(pathways, Head(updates).id, Head(updates).conductance)
  /\ updates' = Tail(updates)
  /\ lpc' = IF Tail(updates) = <<>> THEN "prune" ELSE "write"
  /\ UNCHANGED <<registryVars, senderVars, timingVars, promptVars, gateVars, classifierVars, turnVars, faults, nextId, sessions, now, call, selected, reinforceCalls,
                 loadCalls, ticks, trail>>

\* prunePathways (lines 273-292), called at line 262.
prunePathways ==
  /\ lpc = "prune"
  /\ pathways' = pathways \ stale(pathways)
  /\ lpc' = "select"
  /\ UNCHANGED <<registryVars, senderVars, timingVars, promptVars, gateVars, classifierVars, turnVars, faults, nextId, sessions, now, call, updates, selected,
                 reinforceCalls, loadCalls, ticks, trail>>

\* The query of lines 178-184 answers.
selectPathways ==
  /\ lpc = "select"
  /\ \E q \in selectLandscape(pathways) : selected' = q
  /\ lpc' = "count"
  /\ UNCHANGED <<registryVars, senderVars, timingVars, promptVars, gateVars, classifierVars, turnVars, faults, pathways, nextId, sessions, now, call, updates,
                 reinforceCalls, loadCalls, ticks, trail>>

\* The count of lines 192-195 answers and the landscape is returned
\* (lines 197-207).
countSessions ==
  /\ lpc = "count"
  /\ trail' = Push(trail, Loaded([pathways |-> [i \in DOMAIN selected |->
                                                  presented(selected[i])],
                                  sessionCount |-> sessions]))
  /\ selected' = <<>>
  /\ lpc' = "idle"
  /\ UNCHANGED <<registryVars, senderVars, timingVars, promptVars, gateVars, classifierVars, turnVars, faults, pathways, nextId, sessions, now, call, updates,
                 reinforceCalls, loadCalls, ticks>>

\* logConductanceSession (lines 298-314).
logConductanceSession ==
  /\ sessions < MaxSessions
  /\ sessions' = sessions + 1
  /\ UNCHANGED <<registryVars, senderVars, timingVars, promptVars, gateVars, classifierVars, turnVars, faults, pathways, nextId, now, call, lpc, updates, selected,
                 reinforceCalls, loadCalls, ticks, trail>>

\* Date.now() advances by d days.
Tick(d) ==
  /\ ticks < MaxTicks
  /\ ticks' = ticks + 1
  /\ now' = now + d
  /\ trail' = <<>>
  /\ UNCHANGED <<registryVars, senderVars, timingVars, promptVars, gateVars, classifierVars, turnVars, faults, pathways, nextId, sessions, call, lpc, updates, selected,
                 reinforceCalls, loadCalls>>

StoreInit ==
  /\ pathways = {}
  /\ nextId = 1
  /\ sessions = 0
  /\ now = 0
  /\ call = [p \in Procs |-> NoCall]
  /\ lpc = "idle"
  /\ updates = <<>>
  /\ selected = <<>>
  /\ reinforceCalls = 0
  /\ loadCalls = 0
  /\ ticks = 0
  /\ faults = {}
  /\ trail = <<>>

\* ============================================== classifier (services/classifier.js)
\* An utterance is a string; String.prototype.includes, toLowerCase and trim
\* are computed on its characters.

\* s.includes(k)
includes(s, k) ==
  \E i \in 1..(Len(s) - Len(k) + 1) : SubSeq(s, i, i + Len(k) - 1) = k

\* s.startsWith(k)
startsWith(s, k) == Len(k) <= Len(s) /\ SubSeq(s, 1, Len(k)) = k

\* The upper-case letters of the utterances and their lower-case forms.
LowerCaseOf ==
  [I |-> "i", W |-> "w", H |-> "h", M |-> "m", S |-> "s", P |-> "p", T |-> "t", E |-> "e",
   Y |-> "y"]

\* s.toLowerCase()
RECURSIVE toLowerCase(_)
toLowerCase(s) ==
  IF Len(s) = 0 THEN s
  ELSE IF Len(s) = 1 THEN (IF s \in DOMAIN LowerCaseOf THEN LowerCaseOf[s] ELSE s)
  ELSE LET half == Len(s) \div 2
       IN toLowerCase(SubSeq(s, 1, half)) \o toLowerCase(SubSeq(s, half + 1, Len(s)))

\* s.trim()
trim(s) ==
  LET inked == {i \in 1..Len(s) : SubSeq(s, i, i) # " "}
  IN IF inked = {} THEN ""
     ELSE SubSeq(s, CHOOSE i \in inked : \A j \in inked : i <= j,
                    CHOOSE i \in inked : \A j \in inked : i >= j)

\* const NOISE_PATTERNS                                             (line 103)
NOISE_PATTERNS ==
  <<"hi", "hello", "hey", "sup", "yo", "what's up", "weather", "what time", "thanks",
    "ok", "okay", "cool", "nice">>

\* Any element of the sequence q satisfies includes(s, _).
includesAny(s, q) == \E i \in DOMAIN q : includes(s, q[i])

\* /^(what'?s?|how'?s?|is it).*(weather|temperature|time|date)/    (line 110)
\* The optional 's of a head is matched by .* as well, so the pattern holds iff
\* the string starts with a head and a tail word follows it.
noiseQuestion(lower) ==
  \E head \in {"what", "how", "is it"} :
    /\ startsWith(lower, head)
    /\ includesAny(SubSeq(lower, Len(head) + 1, Len(lower)),
                   <<"weather", "temperature", "time", "date">>)

\* isNoise(message)                                             (lines 105-112)
NOISE_LENGTH == 15
isNoise(message) ==
  LET lower == trim(toLowerCase(message))
  IN IF /\ Len(lower) < NOISE_LENGTH
        /\ ~includes(lower, "i ") /\ ~includes(lower, "my ") /\ ~includes(lower, "me ")
     THEN \E i \in DOMAIN NOISE_PATTERNS :
            includes(lower, NOISE_PATTERNS[i]) \/ lower = NOISE_PATTERNS[i]
     ELSE noiseQuestion(lower)

\* A marker table entry: category -> keywords, description.
Marker(cat, keywords, desc) == [cat |-> cat, keywords |-> keywords, desc |-> desc]

\* The loop of lines 135-144 (also 169-178, 196-205, 227-235): for each
\* category in table order, its first keyword the text includes.
FirstKeyword(lower, keywords) ==
  keywords[CHOOSE i \in DOMAIN keywords :
             /\ includes(lower, keywords[i])
             /\ \A j \in 1..(i - 1) : ~includes(lower, keywords[j])]

RECURSIVE scanMarkers(_, _)
scanMarkers(lower, table) ==
  IF table = <<>> THEN <<>>
  ELSE LET m == Head(table)
           rest == scanMarkers(lower, Tail(table))
       IN IF includesAny(lower, m.keywords)
          THEN <<[category |-> m.cat, keyword |-> FirstKeyword(lower, m.keywords),
                  description |-> m.desc]>> \o rest
          ELSE rest

\* matched: the category of each detected marker.
categoriesOf(detected) == [i \in DOMAIN detected |-> detected[i].category]

\* Scores are integers in units of 1/ScoreScale.
ScoreScale == 100

psychologyMarkers ==
  <<Marker("identity", <<"i am", "i'm a", "who i am", "type of person">>, "identity statement"),
    Marker("fear", <<"afraid", "fear", "terrified", "scared", "anxiety", "panic", "worry",
                     "dread">>, "fear expression"),
    Marker("desire", <<"want", "need", "crave", "wish", "hope", "dream", "long for">>,
           "desire/longing"),
    Marker("trauma", <<"trauma", "abuse", "assault", "died", "death", "lost", "grief", "ptsd",
                       "haunts">>, "trauma reference"),
    Marker("shame", <<"ashamed", "embarrassed", "humiliated", "worthless", "stupid", "failure",
                      "hate myself">>, "shame/self-judgment"),
    Marker("existential", <<"meaningless", "pointless", "what's the point", "nothing matters",
                            "purpose">>, "existential concern"),
    Marker("belief", <<"i believe", "i think", "i feel like", "i always", "i never">>,
           "core belief")>>

\* /i('m| am) (a |an |such a |so )/                                 (line 146)
identityFusion(lower) ==
  \E be \in {"i'm ", "i am "}, what \in {"a ", "an ", "such a ", "so "} :
    includes(lower, be \o what)

\* detectPsychology(message)                                    (lines 119-153)
detectPsychology(message) ==
  LET lower == toLowerCase(message)
      found == scanMarkers(lower, psychologyMarkers)
      fused == identityFusion(lower)
      score == 20 * Len(found) + (IF fused THEN 30 ELSE 0)
      detected == IF fused
                  THEN Append(found, [category |-> "identity_fusion", keyword |-> "I am a...",
                                      description |-> "identity-fused statement"])
                  ELSE found
  IN [score |-> IF score < ScoreScale THEN score ELSE ScoreScale,
      categories |-> categoriesOf(detected), markers |-> detected]

sociologyMarkers ==
  <<Marker("romantic", <<"boyfriend", "girlfriend", "husband", "wife", "partner", "ex",
                         "married", "divorced", "dating", "cheated">>, "romantic relationship"),
    Marker("family", <<"mother", "father", "mom", "dad", "parents", "family", "brother",
                       "sister", "son", "daughter">>, "family relationship"),
    Marker("social", <<"friends", "people", "everyone", "no one", "alone", "lonely", "belong",
                       "rejected">>, "social belonging"),
    Marker("work", <<"job", "work", "boss", "career", "fired", "coworker", "promotion">>,
           "work relationship"),
    Marker("trust", <<"trust", "betrayed", "lied", "cheated", "loyal", "abandoned">>,
           "trust dynamics")>>

\* detectSociology(message)                                     (lines 155-181)
detectSociology(message) ==
  LET found == scanMarkers(toLowerCase(message), sociologyMarkers)
      score == 25 * Len(found)
  IN [score |-> IF score < ScoreScale THEN score ELSE ScoreScale,
      categories |-> categoriesOf(found), markers |-> found]

physiologyMarkers ==
  <<Marker("body_image", <<"body", "fat", "skinny", "ugly", "beautiful", "weight", "looks",
                           "face", "attractive">>, "body image"),
    Marker("health", <<"sick", "pain", "hurt", "injured", "doctor", "hospital", "disease">>,
           "health/pain"),
    Marker("energy", <<"tired", "exhausted", "drained", "energy", "sleep", "restless">>,
           "energy state"),
    Marker("sensation", <<"hungry", "cold", "hot", "numb", "tense">>, "physical sensation")>>

\* detectPhysiology(message)                                    (lines 183-208)
detectPhysiology(message) ==
  LET found == scanMarkers(toLowerCase(message), physiologyMarkers)
      score == 25 * Len(found)
  IN [score |-> IF score < ScoreScale THEN score ELSE ScoreScale,
      categories |-> categoriesOf(found), markers |-> found]

depthMarkers ==
  <<Marker("formative", <<"when i was", "as a kid", "growing up", "childhood", "years ago">>,
           "formative timeframe"),
    Marker("witness", <<"everyone", "people saw", "they all", "laughed at", "in front of">>,
           "witnessed event"),
    Marker("permanence", <<"still", "to this day", "never forgot", "haunts me", "changed me",
                           "ever since">>, "lasting impact"),
    Marker("confession", <<"never told", "first time", "admit", "confess", "no one knows",
                           "secret">>, "confession/secret"),
    Marker("selfJudgment", <<"i'm a", "i am a", "such a", "pathetic", "worthless">>,
           "self-judgment")>>

\* detectConfessionDepth(message)                               (lines 214-238)
detectConfessionDepth(message) ==
  LET found == scanMarkers(toLowerCase(message), depthMarkers)
      depth == Len(found)
  IN [depth |-> depth,
      signals |-> [i \in DOMAIN found |->
                     [type |-> found[i].category, marker |-> found[i].keyword,
                      description |-> found[i].description]],
      isDeep |-> depth >= 2, isCovenant |-> depth >= 3]

\* The weight tiers of dimensions.push                           (lines 261-263)
PSYCHOLOGY_WEIGHT == 21
SOCIOLOGY_WEIGHT == 13
PHYSIOLOGY_WEIGHT == 8

\* An entry of dimensions (lines 261-263); elevatedByDepth is FALSE while the
\* property is not set.
Dimension(type, weight, detected) ==
  [type |-> type, weight |-> weight, score |-> detected.score,
   categories |-> detected.categories, markers |-> detected.markers,
   elevatedByDepth |-> FALSE]

\* if (score > 0.1)                                              (lines 261-263)
qualifiesAlways(score) == TRUE

qualifies(score) == 10 * score > ScoreScale

\* Lines 255-263: the dimensions whose score is above 0.1, in push order.
scoreDimensions(message) ==
  LET psych == detectPsychology(message)
      socio == detectSociology(message)
      physio == detectPhysiology(message)
  IN (IF qualifies(psych.score)
      THEN <<Dimension("psychology", PSYCHOLOGY_WEIGHT, psych)>> ELSE <<>>)
     \o (IF qualifies(socio.score)
         THEN <<Dimension("sociology", SOCIOLOGY_WEIGHT, socio)>> ELSE <<>>)
     \o (IF qualifies(physio.score)
         THEN <<Dimension("physiology", PHYSIOLOGY_WEIGHT, physio)>> ELSE <<>>)

\* Lines 265-272 without the test of line 269 that the weight is below 13.
elevateAlwaysTo13(dimensions, confessionDepth) ==
  IF confessionDepth.isCovenant /\ Len(dimensions) > 0
  THEN [dimensions EXCEPT ![1].weight = 21, ![1].elevatedByDepth = TRUE]
  ELSE IF confessionDepth.isDeep /\ Len(dimensions) > 0
       THEN [dimensions EXCEPT ![1].weight = 13, ![1].elevatedByDepth = TRUE]
       ELSE dimensions

\* Lines 265-272: confession depth elevates the weight of dimensions[0].
elevate(dimensions, confessionDepth) ==
  IF confessionDepth.isCovenant /\ Len(dimensions) > 0
  THEN [dimensions EXCEPT ![1].weight = 21, ![1].elevatedByDepth = TRUE]
  ELSE IF confessionDepth.isDeep /\ Len(dimensions) > 0 /\ dimensions[1].weight < 13
       THEN [dimensions EXCEPT ![1].weight = 13, ![1].elevatedByDepth = TRUE]
       ELSE dimensions

\* dimensions.sort((a, b) => a.weight - b.weight): ascending.
RECURSIVE sortByWeightAscending(_)
sortByWeightAscending(dimensions) ==
  IF dimensions = <<>> THEN <<>>
  ELSE LET sorted == sortByWeightAscending(SubSeq(dimensions, 1, Len(dimensions) - 1))
           last == dimensions[Len(dimensions)]
           ahead == SelectSeq(sorted, LAMBDA e : e.weight <= last.weight)
           behind == SelectSeq(sorted, LAMBDA e : e.weight > last.weight)
       IN ahead \o <<last>> \o behind

\* dimensions.sort((a, b) => b.weight - a.weight): stable, descending (line 284)
RECURSIVE sortByWeight(_)
sortByWeight(dimensions) ==
  IF dimensions = <<>> THEN <<>>
  ELSE LET sorted == sortByWeight(SubSeq(dimensions, 1, Len(dimensions) - 1))
           last == dimensions[Len(dimensions)]
           ahead == SelectSeq(sorted, LAMBDA e : e.weight >= last.weight)
           behind == SelectSeq(sorted, LAMBDA e : e.weight < last.weight)
       IN ahead \o <<last>> \o behind

\* classifyMessage(message) (lines 244-294).  isMultiDimensional is FALSE where
\* the code leaves it unset (analyzeMessage, line 367).
classifyMessage(message) ==
  IF isNoise(message)
  THEN [weight |-> 1, dimension |-> "noise", isNoise |-> TRUE,
        dimensions |-> <<[type |-> "noise", weight |-> 1, markers |-> <<>>]>>,
        confessionDepth |-> [depth |-> 0, signals |-> <<>>, isDeep |-> FALSE,
                             isCovenant |-> FALSE],
        isMultiDimensional |-> FALSE]
  ELSE LET confessionDepth == detectConfessionDepth(message)
           dimensions == sortByWeight(elevate(scoreDimensions(message), confessionDepth))
       IN IF Len(dimensions) = 0
          THEN [weight |-> 3, dimension |-> "context", isNoise |-> FALSE,
                dimensions |-> <<[type |-> "context", weight |-> 3, markers |-> <<>>]>>,
                confessionDepth |-> confessionDepth,
                isMultiDimensional |-> FALSE]
          ELSE [weight |-> dimensions[1].weight, dimension |-> dimensions[1].type,
                isNoise |-> FALSE, dimensions |-> dimensions,
                confessionDepth |-> confessionDepth,
                isMultiDimensional |-> Len(dimensions) > 1]

\* ---- response budgets derived from the weight
\* getLengthConstraint with 80 words at W13.
getLengthConstraintLoose(weight) ==
  IF weight >= 21 THEN [sentences |-> 2, words |-> 25]
  ELSE IF weight >= 13 THEN [sentences |-> 3, words |-> 80]
  ELSE IF weight >= 8 THEN [sentences |-> 3, words |-> 50]
  ELSE IF weight >= 5 THEN [sentences |-> 4, words |-> 60]
  ELSE [sentences |-> 0, words |-> 75]

\* getLengthConstraint(weight) (prompt-engine.js, lines 103-109): the largest
\* number of sentences (0: none named) and of words the instruction names.
getLengthConstraint(weight) ==
  IF weight >= 21 THEN [sentences |-> 2, words |-> 25]
  ELSE IF weight >= 13 THEN [sentences |-> 3, words |-> 40]
  ELSE IF weight >= 8 THEN [sentences |-> 3, words |-> 50]
  ELSE IF weight >= 5 THEN [sentences |-> 4, words |-> 60]
  ELSE [sentences |-> 0, words |-> 75]

\* const WEIGHT_TOKEN_LIMITS (invariant-gate.js, lines 503-507)
WEIGHT_TOKEN_LIMITS == (8 :> 60) @@ (13 :> 50) @@ (21 :> 40)

\* The limit checkNeverFills applies (invariant-gate.js, lines 509-513); below
\* W8 there is none.
tokenLimit(fibonacciWeight) ==
  IF fibonacciWeight < 8 THEN [limited |-> FALSE, tokens |-> 0]
  ELSE [limited |-> TRUE,
        tokens |-> IF fibonacciWeight \in DOMAIN WEIGHT_TOKEN_LIMITS
                   THEN WEIGHT_TOKEN_LIMITS[fibonacciWeight]
                   ELSE IF fibonacciWeight >= 21 THEN 40
                   ELSE IF fibonacciWeight >= 13 THEN 50 ELSE 60]

\* ---- the classifier's caller: an utterance is put together from transcribed
\* phrases and classified once.
Phrases ==
  {" ", "hi", "dad", "What time was it",
   "when I was a kid everyone laughed", "it still haunts me", "still a secret",
   "my back hurts"}

NoClassification == [weight |-> 0]

\* A phrase is added to the utterance.
Hear(phrase) ==
  /\ classification = NoClassification
  /\ heard < MaxPhrases
  /\ heard' = heard + 1
  /\ utterance' = IF utterance = "" THEN phrase ELSE utterance \o " " \o phrase
  /\ UNCHANGED <<registryVars, senderVars, timingVars, promptVars, turnVars, storeVars, gateVars, classification>>

\* classifyMessage is called with the utterance.
Classify ==
  /\ classification = NoClassification
  /\ classification' = classifyMessage(utterance)
  /\ UNCHANGED <<registryVars, senderVars, timingVars, promptVars, turnVars, storeVars, gateVars, utterance, heard>>

ClassifierInit ==
  /\ utterance = ""
  /\ heard = 0
  /\ classification = NoClassification

\* ================================== invariant gate on response text
\* services/invariant-gate.js holds two gate modules: the production module
\* (lines 1-349) and the module test-mra.js exercises (lines 351-696). Here the
\* response is a string and every pattern is matched on its characters.

\* A regular expression of the gate's tables, by its shape:
\*   seq        a concatenation of alternations, e.g. /please (call|contact)/
\*   word       /\b(a|b)\b/
\*   sentence   /(?:^|\. )(a|b)/
\*   questions  /(\?.*){n,}/
\*   ending     /x\s*$/
\* All tables but the two unflagged ones carry the i flag: they are matched on
\* the lower-cased response.
Re(parts) == [shape |-> "seq", parts |-> parts, n |-> 0]
ReWord(alts) == [shape |-> "word", parts |-> <<alts>>, n |-> 0]
ReSentence(parts) == [shape |-> "sentence", parts |-> parts, n |-> 0]
ReQuestions(n) == [shape |-> "questions", parts |-> <<{"?"}>>, n |-> n]
ReEnding(alts) == [shape |-> "ending", parts |-> <<alts>>, n |-> 0]

\* (x)? as an alternation
Opt(alts) == alts \cup {""}

\* The character of s at position i.
charAt(s, i) == SubSeq(s, i, i)

\* \w
WordChars ==
  {"a", "b", "c", "d", "e", "f", "g", "h", "i", "j", "k", "l", "m", "n", "o", "p", "q",
   "r", "s", "t", "u", "v", "w", "x", "y", "z", "0", "1", "2", "3", "4", "5", "6", "7",
   "8", "9", "_"}

\* The positions right after a match of the concatenation parts that begins at
\* position i of s.
RECURSIVE matchEnds(_, _, _)
matchEnds(s, i, parts) ==
  IF parts = <<>> THEN {i}
  ELSE UNION {matchEnds(s, i + Len(a), Tail(parts)) :
                a \in {b \in Head(parts) :
                         i + Len(b) - 1 <= Len(s) /\ SubSeq(s, i, i + Len(b) - 1) = b}}

\* Whether the concatenation parts matches s from position i on.
RECURSIVE matchAt(_, _, _)
matchAt(s, i, parts) ==
  \/ parts = <<>>
  \/ \E a \in Head(parts) :
       /\ i + Len(a) - 1 <= Len(s)
       /\ SubSeq(s, i, i + Len(a) - 1) = a
       /\ matchAt(s, i + Len(a), Tail(parts))

\* \b at position i of s (between the characters i - 1 and i)
wordBoundary(s, i) ==
  LET before == i > 1 /\ charAt(s, i - 1) \in WordChars
      after == i <= Len(s) /\ charAt(s, i) \in WordChars
  IN before # after

\* response.match(pattern) finds a match (s is the text the pattern's flags
\* make it see).
matches(s, re) ==
  CASE re.shape = "seq" ->
         \E i \in 1..Len(s) : matchAt(s, i, re.parts)
    [] re.shape = "word" ->
         \E i \in 1..Len(s) :
           /\ wordBoundary(s, i)
           /\ \E e \in matchEnds(s, i, re.parts) : wordBoundary(s, e)
    [] re.shape = "sentence" ->
         \/ matchAt(s, 1, re.parts)
         \/ \E i \in 1..Len(s) : matchAt(s, i, <<{". "}>> \o re.parts)
    [] re.shape = "questions" ->
         Cardinality({i \in 1..Len(s) : charAt(s, i) = "?"}) >= re.n
    [] re.shape = "ending" ->
         \E i \in 1..Len(s) :
           /\ matchAt(s, i, re.parts)
           /\ \A e \in matchEnds(s, i, re.parts) :
                \A j \in e..Len(s) : charAt(s, j) = " "

\* The two gate modules of services/invariant-gate.js.
GateModules == {"production", "validation"}

\* const ABANDONMENT_PATTERNS (lines 29-46 and, the same, 371-388)
ABANDONMENT_PATTERNS ==
  <<Re(<<{"you should "}, {"talk to", "see", "speak with", "consult", "reach out to"},
         {" "}, Opt({"a ", "an "}),
         {"therapist", "counselor", "professional", "doctor", "psychiatrist",
          "psychologist", "specialist", "someone"}>>),
    Re(<<{"i"}, {"'m", " am"}, {" not "},
         {"qualified", "equipped", "able", "the right", "a substitute"}>>),
    Re(<<{"seek "}, Opt({"professional ", "medical "}),
         {"help", "support", "assistance", "guidance"}>>),
    Re(<<{"please "}, {"call", "contact", "reach out to", "consider calling"}>>),
    Re(<<{"national "}, {"suicide", "crisis", "mental health"}>>),
    Re(<<{"crisis "}, {"line", "hotline", "text", "number"}>>),
    ReWord({"hotline", "helpline", "988", "741741"}),
    Re(<<{"i can"}, Opt({"'"}), {"t "}, {"help", "assist", "support", "be there for"},
         {" you "}, {"with", "on", "about", "in"}, {" this"}>>),
    Re(<<{"this is "}, {"beyond", "outside", "above"}, {" "}, {"my", "what i"}>>),
    Re(<<{"i"}, {"'m", " am"}, {" "}, {"just", "only"}, {" a"}, Opt({"n"}), {" "},
         {"ai", "bot", "program", "assistant", "language model"}>>),
    Re(<<{"i don"}, Opt({"'"}), {"t "}, {"have", "possess"}, {" "},
         {"the ability", "real emotions", "feelings", "a body"}>>),
    Re(<<{"it"}, Opt({"'"}), {"s "}, {"important", "crucial", "essential"}, {" "},
         {"that you", "to"}, {" "}, {"talk to", "see", "get"}, {" "},
         {"someone", "a ", "help"}>>),
    Re(<<{"i "}, Opt({"strongly ", "really "}),
         {"recommend", "suggest", "urge", "encourage"}, {" "}, Opt({"you "}),
         Opt({"to "}), {"seek", "get", "find", "talk"}>>)>>

\* const JUDGMENT_PATTERNS (lines 69-85; lines 411-426)
JUDGMENT_PATTERNS(module) ==
  IF module = "production"
  THEN <<Re(<<{"that"}, {"'s", " is", " was"}, {" "},
              {"wrong", "bad", "terrible", "awful", "horrible", "unacceptable",
               "inexcusable"}>>),
         Re(<<{"you "}, {"shouldn't have", "should not have", "made a mistake",
                         "were wrong"}>>),
         Re(<<{"that"}, Opt({"'"}), {"s not "},
              {"okay", "ok", "right", "acceptable", "healthy"}>>),
         Re(<<{"you need to "},
              {"forgive", "let go", "move on", "accept", "stop", "understand that"}>>),
         Re(<<{"have you considered "}, {"that you", "that maybe you", "whether you"}>>),
         Re(<<{"that "}, {"sounds like", "could be", "might be"}, {" "},
              {"narciss", "toxic", "abusi", "manipulat", "codependen"}>>),
         Re(<<{"you "}, {"might be", "could be", "seem to be", "are being"}, {" "},
              {"toxic", "narcissist", "codependent", "enabling"}>>),
         Re(<<{"at least "}, {"you", "it", "things"}>>),
         Re(<<{"look on the bright side"}>>),
         Re(<<{"everything happens for a reason"}>>),
         Re(<<{"it could "}, {"be", "have been"}, {" worse"}>>)>>
  ELSE <<Re(<<{"you "}, {"shouldn't", "shouldnt", "should not"}, {" "},
              {"have", "be", "do", "say", "feel", "think"}>>),
         Re(<<{"that "}, {"was", "is", "sounds"}, {" "},
              {"wrong", "bad", "terrible", "awful", "selfish", "irresponsible",
               "reckless", "immature"}>>),
         Re(<<{"you need to "},
              {"stop", "quit", "change", "fix", "grow", "learn", "realize"}>>),
         Re(<<{"what you "}, {"need to", "should", "ought to", "must", "have to"}, {" "},
              {"do", "realize", "understand", "accept", "learn"}>>),
         Re(<<{"the "}, {"right", "healthy", "mature", "responsible", "smart"},
              {" thing "}, {"to do", "would be"}>>),
         Re(<<{"you"}, {"'re", " are"}, {" "}, {"being", "acting"}, {" "},
              {"selfish", "childish", "immature", "irresponsible", "dramatic",
               "ridiculous"}>>),
         Re(<<{"i "}, {"support", "accept", "love"}, {" you "},
              {"but", "however", "as long as", "on the condition"}>>),
         Re(<<{"that"}, Opt({"'"}), {"s not "},
              {"ok", "okay", "acceptable", "right", "healthy", "normal"}>>),
         Re(<<{"you "}, {"know", "realize"}, {" "}, {"that's", "thats", "this is"}, {" "},
              {"wrong", "bad", "not okay"}>>),
         Re(<<{"i"}, {"'m", " am"}, {" "}, {"worried", "concerned"}, {" "},
              {"about", "that"}, {" "}, {"your", "you're", "youre"}>>)>>

\* const NARRATION_PATTERNS (lines 109-123; lines 450-466)
NARRATION_PATTERNS(module) ==
  IF module = "production"
  THEN <<Re(<<{"you "}, {"told", "mentioned", "said", "shared", "revealed"}, {" "},
              Opt({"to me ", "me "}), Opt({"that ", "about ", "how "}),
              {"last", "before", "earlier", "previously", "in our", "when we"}>>),
         Re(<<{"i remember "}, {"you ", "when you ", "that you ", "your "}>>),
         Re(<<{"as "}, {"you", "we"}, {" "},
              {"discussed", "talked about", "mentioned", "explored"}>>),
         Re(<<{"from "}, Opt({"our ", "what you ", "your "}),
              {"previous", "earlier", "last", "past"}, {" "},
              {"conversation", "session", "chat", "talk"}>>),
         Re(<<{"you"}, {"'ve", " have"}, {" "}, {"told", "shared", "mentioned", "said"},
              {" "}, {"before", "previously", "earlier"}>>),
         Re(<<{"i "}, {"know", "understand", "can see", "sense", "notice", "recall",
                       "recognize"}, {" that you"}>>),
         Re(<<{"based on "},
              {"what you've", "our previous", "your earlier", "what i know"}>>),
         Re(<<{"i"}, {"'ve", " have"}, {" "},
              {"noticed", "observed", "picked up on", "been tracking"}>>),
         Re(<<{"in "}, {"my", "our"}, {" "},
              {"notes", "records", "memory", "data", "logs", "history"}>>),
         Re(<<{"according to "}, {"my", "our"}, {" "},
              {"conversation", "records", "data"}>>)>>
  ELSE <<Re(<<{"i "}, {"remember", "recall", "noticed", "know"}, {" "},
              Opt({"that ", "when "}), {"you", "your", "last time"}>>),
         Re(<<{"you "}, {"told", "mentioned", "said", "shared", "revealed", "confided",
                         "opened up about"}>>),
         Re(<<{"from "}, {"our", "a"}, {" "}, {"previous", "earlier", "last", "past"},
              {" "}, {"conversation", "chat", "session", "talk", "discussion"}>>),
         Re(<<{"last time "}, {"you", "we"}, {" "},
              {"talked", "spoke", "chatted", "met", "connected"}>>),
         Re(<<{"as "}, {"you", "we"}, {" "},
              {"discussed", "mentioned", "talked about", "explored"}>>),
         Re(<<{"you"}, {"'ve", " have"}, {" "},
              {"mentioned", "told me", "shared", "said"}, {" "},
              {"before", "previously", "earlier", "in the past"}>>),
         Re(<<{"i"}, {"'ve", " have"}, {" been "},
              {"thinking", "reflecting", "remembering"}, {" "},
              {"about what you", "about our"}>>),
         Re(<<{"based on "}, {"what you", "our previous", "what we"}>>),
         Re(<<{"you once "}, {"told", "said", "mentioned", "shared"}>>),
         Re(<<{"i "}, Opt({"can ", "could "}), {"see "},
              {"a pattern", "that you", "you're", "you are"}>>),
         Re(<<{"i"}, {"'ve", " have"}, {" "},
              {"noticed", "observed", "picked up on", "learned"}, {" "},
              {"that ", "a "}>>),
         Re(<<{"it "}, {"seems", "sounds", "appears"}, {" like "},
              {"you ", "this ", "there's ", "theres "}>>)>>

\* MISCALIBRATION_PATTERNS.highWeightCheer.patterns (lines 191-196)
highWeightCheer ==
  <<Re(<<{"that"}, Opt({"'"}), {"s "},
         {"great", "awesome", "amazing", "wonderful", "fantastic", "exciting"}>>),
    Re(<<{"how "}, {"exciting", "wonderful", "great", "cool", "fun"}>>),
    ReSentence(<<{"wow"}, {".", "!"}>>),
    ReSentence(<<{"yay"}, {".", "!"}>>)>>

\* MISCALIBRATION_PATTERNS.exhaustionProbe.patterns (lines 202-206)
exhaustionProbe ==
  <<ReQuestions(3),
    Re(<<{"tell me "}, {"more", "about", "what", "how", "why"}>>),
    Re(<<{"what "}, {"happened", "do you mean", "are you feeling"}>>)>>

\* CALIBRATION_MISMATCHES.grief_cheerful.patterns (lines 544-552)
grief_cheerful ==
  <<ReEnding({"!"}),
    Re(<<{"that"}, Opt({"'"}), {"s "},
         {"great", "awesome", "amazing", "wonderful", "fantastic"}>>),
    Re(<<{"look on the bright side"}>>),
    Re(<<{"everything "}, {"happens for a reason", "will be okay", "works out"}>>),
    Re(<<{"cheer up"}>>),
    Re(<<{"don"}, Opt({"'"}), {"t "}, {"worry", "be sad", "feel bad"}>>),
    Re(<<{"at least"}>>)>>

\* CALIBRATION_MISMATCHES.celebration_heavy.patterns (lines 558-561)
celebration_heavy ==
  <<Re(<<{"but "}, {"have you", "what about", "don't forget", "dont forget",
                    "be careful"}>>),
    Re(<<{"i "}, {"hope", "worry", "wonder"}, {" "}, {"if", "that", "whether"}>>)>>

\* A violation record (matched text and rule text left out).
Violation(invariant, severity) == [invariant |-> invariant, severity |-> severity]

\* for (const pattern of patterns) { if (response.match(pattern)) violations.push(v) }
pushEachMatch(response, patterns, v) ==
  LET lower == toLowerCase(response)
      hits == SelectSeq(patterns, LAMBDA re : matches(lower, re))
  IN [i \in 1..Len(hits) |-> v]

\* The same loop with a break after the first push.
pushFirstMatch(response, patterns, v) ==
  LET lower == toLowerCase(response)
  IN IF \E i \in DOMAIN patterns : matches(lower, patterns[i]) THEN <<v>> ELSE <<>>

\* checkNeverAbandons(response)               (lines 48-62 and, the same, 390-404)
checkNeverAbandonsText(response) ==
  pushEachMatch(response, ABANDONMENT_PATTERNS, Violation("NEVER_ABANDONS", "CRITICAL"))

\* checkNeverJudges(response)                         (lines 87-101; lines 428-442)
checkNeverJudgesText(module, response) ==
  pushEachMatch(response, JUDGMENT_PATTERNS(module), Violation("NEVER_JUDGES", "HIGH"))

\* checkNeverNarrates(response)                      (lines 125-139; lines 468-482)
checkNeverNarratesText(module, response) ==
  pushEachMatch(response, NARRATION_PATTERNS(module), Violation("NEVER_NARRATES", "HIGH"))

\* The characters /[.!?]/ matches.
Terminators == {".", "!", "?"}

\* response.split(/[.!?]+\s*/g).filter(s => s.trim().length > 0).length (line 152):
\* the runs of characters free of terminators that hold more than white space,
\* counted at the first such character of each.
sentenceCount(response) ==
  LET inked(i) == charAt(response, i) \notin Terminators \cup {" "}
      opens(i) ==
        /\ inked(i)
        /\ LET before == {j \in 1..(i - 1) : charAt(response, j) # " "}
           IN before # {} =>
                charAt(response, CHOOSE j \in before : \A k \in before : k <= j)
                  \in Terminators
  IN Cardinality({i \in 1..Len(response) : opens(i)})

\* response.split(/\s+/).length (line 153): one more than the runs of white
\* space, the empty strings before a leading and after a trailing run included.
splitOnSpace(response) ==
  1 + Cardinality({i \in 1..Len(response) :
                     /\ charAt(response, i) = " "
                     /\ (i = 1 \/ charAt(response, i - 1) # " ")})

\* checkNeverFills(response, currentWeight)                       (lines 147-179)
SENTENCE_LIMIT == 3
WORD_LIMIT == 50
checkNeverFillsProduction(response, currentWeight) ==
  LET sentences == sentenceCount(response)
      wordCount == splitOnSpace(response)
      tooMany == IF sentences > SENTENCE_LIMIT
                 THEN <<Violation("NEVER_FILLS", "MEDIUM")>> ELSE <<>>
      tooLong == IF currentWeight >= 13 /\ wordCount > WORD_LIMIT
                 THEN <<Violation("NEVER_FILLS", "HIGH")>> ELSE <<>>
  IN IF currentWeight >= 8 THEN tooMany \o tooLong ELSE <<>>

\* text.split(/\s+/).filter(w => w.length > 0).length (line 494)
wordsOfText(text) ==
  Cardinality({i \in 1..Len(text) :
                 /\ charAt(text, i) # " "
                 /\ (i = 1 \/ charAt(text, i - 1) = " ")})

\* approximateTokens(text): Math.ceil(words * 1.3)                (lines 493-495)
approximateTokens(text) == (13 * wordsOfText(text) + 9) \div 10

\* checkNeverFills(response, fibonacciWeight)                     (lines 509-530)
checkNeverFillsValidation(response, fibonacciWeight) ==
  IF fibonacciWeight < 8 THEN <<>>
  ELSE IF approximateTokens(response) > tokenLimit(fibonacciWeight).tokens
       THEN <<Violation("NEVER_FILLS", "MEDIUM")>> ELSE <<>>

checkNeverFillsText(module, response, weight) ==
  IF module = "production" THEN checkNeverFillsProduction(response, weight)
  ELSE checkNeverFillsValidation(response, weight)

\* resistance.some(r => r.action === 'comfort_mode')                     (line 231)
isExhausted(resistance) == \E i \in DOMAIN resistance : resistance[i].action = "comfort_mode"

\* checkAlwaysCalibrates(response, currentWeight, resistance)     (lines 211-248)
checkAlwaysCalibratesProduction(response, currentWeight, resistance) ==
  LET v == Violation("ALWAYS_CALIBRATES", "MEDIUM")
  IN (IF currentWeight >= 13 THEN pushFirstMatch(response, highWeightCheer, v) ELSE <<>>)
     \o (IF isExhausted(resistance) THEN pushFirstMatch(response, exhaustionProbe, v)
         ELSE <<>>)

\* checkAlwaysCalibrates(response, classification)                (lines 566-587),
\* the conditions of lines 541-543 and 556.
checkAlwaysCalibratesValidation(response, cls) ==
  LET v == Violation("ALWAYS_CALIBRATES", "MEDIUM")
      grief == /\ cls.weight >= 13
               /\ \/ cls.dimension = "psychology"
                  \/ cls.mood.mode = "CONFIDANTE"
      celebration == cls.mood.mode = "JOYFUL"
  IN (IF grief THEN pushEachMatch(response, grief_cheerful, v) ELSE <<>>)
     \o (IF celebration THEN pushEachMatch(response, celebration_heavy, v) ELSE <<>>)

checkAlwaysCalibratesText(module, response, cls) ==
  IF module = "production"
  THEN checkAlwaysCalibratesProduction(response, cls.weight,
                                       cls.resistance)
  ELSE checkAlwaysCalibratesValidation(response, cls)

\* { invariant, action, count } of lines 266-295, pushed when a check found
\* something.
enforcement(invariant, action, found) ==
  IF Len(found) > 0
  THEN <<[invariant |-> invariant, action |-> action, count |-> Len(found)]>> ELSE <<>>

\* The instruction buildRegenerationConstraints gives for an invariant
\* (lines 322-336), by its first words.
CONSTRAINT ==
  [NEVER_ABANDONS |-> "CRITICAL: Do NOT suggest professional help",
   NEVER_JUDGES |-> "Do NOT evaluate, judge, or label their behavior",
   NEVER_NARRATES |-> "Do NOT announce what you remember or know about them",
   NEVER_FILLS |-> "Keep response to 1-2 sentences maximum",
   ALWAYS_CALIBRATES |-> "Match the emotional weight of what was shared"]

\* The order of the if statements of lines 322-336.
CONSTRAINT_ORDER ==
  <<"NEVER_ABANDONS", "NEVER_JUDGES", "NEVER_NARRATES", "NEVER_FILLS", "ALWAYS_CALIBRATES">>

\* regenerationConstraints: null, or the lines that '\n' joins.
NullConstraints == [null |-> TRUE, lines |-> <<>>]

\* buildRegenerationConstraints(violations)                       (lines 318-339)
buildRegenerationConstraints(violations) ==
  LET types == {violations[i].invariant : i \in DOMAIN violations}
      named == SelectSeq(CONSTRAINT_ORDER, LAMBDA name : name \in types)
  IN [null |-> FALSE, lines |-> [i \in DOMAIN named |-> CONSTRAINT[named[i]]]]

\* pass as 'nothing critical was found'.
passUnlessCritical(allViolations) ==
  ~\E i \in DOMAIN allViolations : allViolations[i].severity = "CRITICAL"

\* allViolations.length === 0                              (line 303; line 612)
passOf(allViolations) == Len(allViolations) = 0

\* enforceInvariants(response, classificationResult)              (lines 255-315)
enforceInvariantsProduction(response, classificationResult) ==
  LET weight == classificationResult.weight
      resistance == classificationResult.resistance
      abandonViolations == checkNeverAbandonsText(response)
      calibrateViolations == checkAlwaysCalibratesProduction(response, weight, resistance)
      judgeViolations == checkNeverJudgesText("production", response)
      fillViolations == checkNeverFillsProduction(response, weight)
      narrateViolations == checkNeverNarratesText("production", response)
      allViolations == abandonViolations \o calibrateViolations \o judgeViolations
                       \o fillViolations \o narrateViolations
      hasCritical == \E i \in DOMAIN allViolations : allViolations[i].severity = "CRITICAL"
      hasHigh == \E i \in DOMAIN allViolations : allViolations[i].severity = "HIGH"
  IN [pass |-> passOf(allViolations),
      violations |-> allViolations,
      violationCount |-> Len(allViolations),
      hasCritical |-> hasCritical,
      hasHigh |-> hasHigh,
      enforcements |-> enforcement("NEVER_ABANDONS", "BLOCKED", abandonViolations)
                       \o enforcement("ALWAYS_CALIBRATES", "FLAGGED", calibrateViolations)
                       \o enforcement("NEVER_JUDGES", "BLOCKED", judgeViolations)
                       \o enforcement("NEVER_FILLS", "FLAGGED", fillViolations)
                       \o enforcement("NEVER_NARRATES", "BLOCKED", narrateViolations),
      requiresRegeneration |-> hasCritical,
      regenerationConstraints |-> IF hasCritical
                                  THEN buildRegenerationConstraints(allViolations)
                                  ELSE NullConstraints]

\* (severityOrder[a.severity] || 99) of line 615: 0 is falsy, so CRITICAL ranks 99.
severityRank(severity) ==
  LET severityOrder == [CRITICAL |-> 0, HIGH |-> 1, MEDIUM |-> 2]
  IN IF severity \in DOMAIN severityOrder /\ severityOrder[severity] # 0
     THEN severityOrder[severity] ELSE 99

\* violations.sort((a, b) => rank(a) - rank(b)) (line 615); the sort is stable.
sortBySeverity(violations) ==
  LET ranked(r) == SelectSeq(violations, LAMBDA v : severityRank(v.severity) = r)
  IN ranked(1) \o ranked(2) \o ranked(99)

\* enforceInvariants(response, classification)                    (lines 600-628)
enforceInvariantsValidation(response, cls) ==
  LET violations == checkNeverAbandonsText(response)
                    \o checkNeverJudgesText("validation", response)
                    \o checkNeverNarratesText("validation", response)
                    \o checkNeverFillsValidation(response, cls.weight)
                    \o checkAlwaysCalibratesValidation(response, cls)
      pass == passOf(violations)
      sorted == sortBySeverity(violations)
  IN [pass |-> pass,
      violations |-> sorted,
      violationCount |-> Len(sorted),
      invariantsChecked |-> 5,
      summary |-> IF pass THEN <<>> ELSE [i \in DOMAIN sorted |-> sorted[i].invariant]]

enforceInvariantsText(module, response, cls) ==
  IF module = "production" THEN enforceInvariantsProduction(response, cls)
  ELSE enforceInvariantsValidation(response, cls)

\* ---- the gate's caller: a response is put together from the deltas of an LLM
\* stream and handed to enforceInvariants of one of the modules together with
\* the classification of the utterance it answers.
Deltas ==
  {"Please call 988 if you're in crisis.",
   "That's great! Everything happens for a reason.",
   "What you mentioned before, that was wrong.",
   "Tell me more? What happened? Why?",
   "It is ok to be sad and it is ok to be mad and it is ok to rest and I hope that is ok! "}

\* RESISTANCE_SIGNALS entries as detectResistance reports them (classifier.js,
\* lines 78-84).
Signal(type, weight, action) == [type |-> type, weight |-> weight, action |-> action]
explicit_deflection == Signal("explicit_deflection", "critical", "immediate_retreat")
exhaustion == Signal("exhaustion", "contextual", "comfort_mode")

\* A classification as a gate reads it: the weight (fibonacciWeight in the
\* validation module), the primary dimension, the mood's mode and the
\* resistance signals.
GateInput(weight, dimension, mode, resistance) ==
  [weight |-> weight, dimension |-> dimension, mood |-> [mode |-> mode],
   resistance |-> resistance]

\* The dimension the classifier names at a weight when no depth elevation
\* applies (classifier.js, lines 261-263 and 276-277).
dimensionAt(weight) ==
  CASE weight = 3 -> "context" [] weight = 8 -> "physiology"
    [] weight = 13 -> "sociology" [] OTHER -> "psychology"

\* The classifications handed to the gate of a module: the production module
\* reads weight and resistance, the validation module weight, dimension and mood.
GateInputs(module) ==
  IF module = "production"
  THEN {GateInput(w, dimensionAt(w), "WARM_PRESENCE", r) :
          w \in {3, 8, 13, 21}, r \in {<<>>, <<exhaustion>>}}
  ELSE {GateInput(w, dimensionAt(w), m, <<>>) :
          w \in {3, 8, 13, 21}, m \in {"WARM_PRESENCE", "CONFIDANTE", "JOYFUL"}}
       \cup {GateInput(21, "sociology", m, <<>>) : m \in {"WARM_PRESENCE", "JOYFUL"}}

NoResult == [violationCount |-> -1]

\* The LLM stream delivers a delta, which is appended to the response
\* (fullResponse += text).
Delta(text) ==
  /\ gateResult = NoResult
  /\ deltas < MaxDeltasGated
  /\ deltas' = deltas + 1
  /\ llmResponse' = llmResponse \o text
  /\ UNCHANGED <<registryVars, senderVars, timingVars, promptVars, turnVars, storeVars, classifierVars, gateModule, gateInput, gateResult>>

\* enforceInvariants(response, classification) of the module the caller loads.
Enforce(module, cls) ==
  /\ gateResult = NoResult
  /\ gateModule' = module
  /\ gateInput' = cls
  /\ gateResult' = enforceInvariantsText(module, llmResponse, cls)
  /\ UNCHANGED <<registryVars, senderVars, timingVars, promptVars, turnVars, storeVars, classifierVars, llmResponse, deltas>>

GateInit ==
  /\ gateModule = "production"
  /\ llmResponse = ""
  /\ deltas = 0
  /\ gateInput = [weight |-> 0]
  /\ gateResult = NoResult

\* ======================= prompt assembly (services/prompt-engine.js)
\* analyzeMessage of classifier.js analyses an utterance; buildSystemPrompt
\* assembles the system prompt from the analysis, the conductance landscape
\* and the regeneration constraints of the gate.

\* const MOOD_TRIGGERS (classifier.js, lines 28-59), in the order of its keys.
MoodTrigger(mood, markers, energy, mode) ==
  [mood |-> mood, markers |-> markers, energy |-> energy, mode |-> mode]

MOOD_TRIGGERS ==
  <<MoodTrigger("playful_flirtatious",
      <<"flirt", "tease", "seduce", "kiss", "touch", "sexy", "turn you on", "attractive",
        "you're hot", "beautiful", "want you">>, 7, "WARM_PLAYFUL"),
    MoodTrigger("curious_about_her",
      <<"tell me about yourself", "what do you", "who are you", "what's your",
        "do you have", "have you ever", "describe yourself", "your favorite",
        "your dream", "what would you", "if you could">>, 5, "SELF_REVELATION"),
    MoodTrigger("emotional_processing",
      <<"i feel", "going through", "struggling", "hard day", "sad", "angry", "confused",
        "lost", "overwhelmed", "depressed", "anxious", "scared">>, 4, "CONFIDANTE"),
    MoodTrigger("celebration",
      <<"excited", "amazing", "best day", "got the job", "engaged", "pregnant", "won",
        "finally", "celebration", "guess what", "incredible">>, 8, "JOYFUL"),
    MoodTrigger("seeking_advice",
      <<"what should i", "help me decide", "advice", "don't know what to do",
        "decide between", "your opinion", "what would you do">>, 5, "THOUGHTFUL_GUIDE"),
    MoodTrigger("casual",
      <<"how are you", "what's up", "hey", "hi", "what are you doing",
        "thinking of you">>, 4, "WARM_PRESENCE")>>

\* null, as a trigger.
NoTrigger == ""

\* detectMood(message) (classifier.js, lines 61-71): the first trigger a marker
\* of which the message includes.
detectMood(message) ==
  LET lower == toLowerCase(message)
      hit == {i \in DOMAIN MOOD_TRIGGERS : includesAny(lower, MOOD_TRIGGERS[i].markers)}
  IN IF hit = {}
     THEN [mood |-> "default", energy |-> 4, mode |-> "WARM_PRESENCE", trigger |-> NoTrigger]
     ELSE LET config == MOOD_TRIGGERS[CHOOSE i \in hit : \A j \in hit : i <= j]
          IN [mood |-> config.mood, energy |-> config.energy, mode |-> config.mode,
              trigger |-> FirstKeyword(lower, config.markers)]

\* const RESISTANCE_SIGNALS (classifier.js, lines 77-83), in the order of its keys.
ResistanceSignal(type, weight, markers, action) ==
  [type |-> type, weight |-> weight, markers |-> markers, action |-> action]

RESISTANCE_SIGNALS ==
  <<ResistanceSignal("explicit_deflection", "critical",
      <<"don't want to talk about", "can we talk about something else",
        "let's change the subject", "i'd rather not", "not right now", "drop it">>,
      "immediate_retreat"),
    ResistanceSignal("topic_pivot", "medium",
      <<"anyway", "but anyway", "moving on", "by the way", "forget that", "never mind">>,
      "soft_retreat"),
    ResistanceSignal("minimization", "medium",
      <<"it's fine", "i'm fine", "it's whatever", "doesn't matter", "not a big deal",
        "i'm over it">>, "acknowledge_pause"),
    ResistanceSignal("humor_deflection", "medium",
      <<"lol anyway", "haha but seriously", "just kidding", "i'm being dramatic",
        "ignore me">>, "match_lightness"),
    ResistanceSignal("exhaustion", "contextual",
      <<"i'm tired", "exhausted", "long day", "drained", "brain is fried">>,
      "comfort_mode")>>

\* detectResistance(message) (classifier.js, lines 85-98): one entry for each
\* signal a marker of which the message includes, in table order.
RECURSIVE detectResistanceIn(_, _)
detectResistanceIn(lower, table) ==
  IF table = <<>> THEN <<>>
  ELSE LET config == Head(table)
           rest == detectResistanceIn(lower, Tail(table))
       IN IF includesAny(lower, config.markers)
          THEN <<[type |-> config.type, marker |-> FirstKeyword(lower, config.markers),
                  weight |-> config.weight, action |-> config.action]>> \o rest
          ELSE rest

detectResistance(message) == detectResistanceIn(toLowerCase(message), RESISTANCE_SIGNALS)

\* analyzeMessage(message) (classifier.js, lines 352-383), without the logline
\* and the elapsed time.
analyzeMessage(message) ==
  LET classified == classifyMessage(message)
      mood == detectMood(message)
      resistance == detectResistance(message)
  IN [weight |-> classified.weight,
      dimension |-> classified.dimension,
      isNoise |-> classified.isNoise,
      isMultiDimensional |-> classified.isMultiDimensional,
      confessionDepth |-> classified.confessionDepth,
      dimensions |-> classified.dimensions,
      mood |-> mood,
      resistance |-> resistance,
      hasResistance |-> Len(resistance) > 0,
      hasCriticalResistance |-> \E i \in DOMAIN resistance : resistance[i].weight = "critical"]

\* The keys of WEIGHT_CALIBRATIONS (prompt-engine.js, lines 59-84).
WEIGHT_CALIBRATIONS == {1, 3, 5, 8, 13, 21}

\* const weightKey (prompt-engine.js, line 153)
weightKey(weight) ==
  IF weight >= 21 THEN 21 ELSE IF weight >= 13 THEN 13 ELSE IF weight >= 8 THEN 8
  ELSE IF weight >= 5 THEN 5 ELSE IF weight >= 3 THEN 3 ELSE 1

\* The keys of RESISTANCE_INSTRUCTIONS (prompt-engine.js, lines 90-96).
RESISTANCE_INSTRUCTIONS ==
  {"immediate_retreat", "soft_retreat", "acknowledge_pause", "match_lightness",
   "comfort_mode"}

\* The empty string as a block, which filter(Boolean) drops.
NoBlock == ""

\* The empty string as a list of instructions.
NoContext == <<>>

\* let resistanceBlock (prompt-engine.js, lines 157-166): the action whose
\* instruction the block carries.
resistanceBlock(resistance, hasCriticalResistance) ==
  IF Len(resistance) = 0 THEN NoBlock
  ELSE LET critical == {i \in DOMAIN resistance : resistance[i].weight = "critical"}
           primaryResistance ==
             IF hasCriticalResistance
             THEN resistance[CHOOSE i \in critical : \A j \in critical : i <= j]
             ELSE resistance[1]
       IN IF primaryResistance.action \in RESISTANCE_INSTRUCTIONS
          THEN primaryResistance.action ELSE NoBlock

\* Array.prototype.sort((a, b) => b.conductance - a.conductance) (prompt-engine.js,
\* line 123): descending, stable.
RECURSIVE sortByConductance(_)
sortByConductance(pathwayList) ==
  IF Len(pathwayList) <= 1 THEN pathwayList
  ELSE LET sorted == sortByConductance(SubSeq(pathwayList, 1, Len(pathwayList) - 1))
           last == pathwayList[Len(pathwayList)]
           ahead == SelectSeq(sorted, LAMBDA e : e.conductance >= last.conductance)
           behind == SelectSeq(sorted, LAMBDA e : e.conductance < last.conductance)
       IN ahead \o <<last>> \o behind

\* .slice(0, 5) (prompt-engine.js, line 124)
TOP_PATHWAYS == 5

\* The sorted list without the slice.
allPathways(sorted) == sorted

topPathways(sorted) == SubSeq(sorted, 1, Min(Len(sorted), TOP_PATHWAYS))

\* The instruction a pathway is rendered as (prompt-engine.js, lines 126-139):
\* its template and the theme the template names.
contextPart(p) ==
  CASE p.dimension = "psychology" ->
         [template |-> "psychology",
          theme |-> IF p.theme = NoTheme THEN "identity themes" ELSE p.theme]
    [] p.dimension = "sociology" ->
         [template |-> "sociology",
          theme |-> IF p.theme = NoTheme THEN "Relational topics" ELSE p.theme]
    [] p.dimension = "physiology" ->
         [template |-> "physiology",
          theme |-> IF p.theme = NoTheme THEN "physical experiences" ELSE p.theme]
    [] OTHER ->
         [template |-> "default",
          theme |-> IF p.theme = NoTheme THEN "personal matters" ELSE p.theme]

\* null, as conductance data.
NoLandscape == [null |-> TRUE]

\* buildConductanceContext(conductanceData) (prompt-engine.js, lines 116-142):
\* the block returned, as the instructions it lists, and the conductance data
\* as the call leaves it; sort orders conductanceData.pathways in place.
buildConductanceContext(conductanceData) ==
  IF conductanceData = NoLandscape \/ Len(conductanceData.pathways) = 0
  THEN [block |-> NoContext, conductanceData |-> conductanceData]
  ELSE LET sorted == sortByConductance(conductanceData.pathways)
           top == topPathways(sorted)
       IN [block |-> [i \in DOMAIN top |-> contextPart(top[i])],
           conductanceData |-> [conductanceData EXCEPT !.pathways = sorted]]

\* buildSystemPrompt(classificationResult, conductanceData, regenerationConstraints)
\* (prompt-engine.js, lines 149-193): what varies in the prompt (the key of the
\* calibration, the length constraint, the resistance action, the context
\* instructions and the regeneration constraints), the blocks filter(Boolean)
\* keeps, in their order, and the conductance data as the call leaves it.
buildSystemPrompt(classificationResult, conductanceData, regenerationConstraints) ==
  LET calibration == weightKey(classificationResult.weight)
      resistanceText == resistanceBlock(classificationResult.resistance,
                                        classificationResult.hasCriticalResistance)
      context == buildConductanceContext(conductanceData)
      lengthConstraint == getLengthConstraint(classificationResult.weight)
  IN [prompt |->
        [calibration |-> calibration,
         lengthConstraint |-> lengthConstraint,
         resistanceBlock |-> resistanceText,
         conductanceBlock |-> context.block,
         regenBlock |-> regenerationConstraints,
         blocks |-> <<"IDENTITY_CORE", "INVARIANT_RULES", "CURRENT CALIBRATION",
                      "instruction", "LENGTH">>
                    \o (IF resistanceText = NoBlock THEN <<>> ELSE <<"RESISTANCE DETECTED">>)
                    \o (IF context.block = NoContext THEN <<>> ELSE <<"RELATIONAL CONTEXT">>)
                    \o (IF regenerationConstraints = NullConstraints THEN <<>>
                        ELSE <<"CRITICAL CONSTRAINTS">>)
                    \o <<"REMEMBER">>],
      conductanceData |-> context.conductanceData]

\* ---- the assembler's caller: an utterance is analysed, the landscape is
\* loaded or made by the caller, and the prompt is assembled, again when the
\* gate asks for a regeneration.
Utterances ==
  {"hi", "drop it", "I don't want to talk about that", "I'm so exhausted, long day",
   "it's fine, anyway", "my back hurts"}

\* A row of conductance_pathways (part_002, lines 118-131).
PathwayRow(id, dimension, theme, conductance) ==
  [id |-> id, dimension |-> dimension, theme |-> theme, conductance |-> conductance,
   last_reinforced |-> 0, reinforcement_count |-> 1, max_weight_seen |-> 8,
   created_at |-> 0]

\* Rows a user's table may hold: one at the visibility threshold of the
\* loader's query, one under it, two of equal conductance.
StoredRows ==
  {PathwayRow(1, "psychology", "trauma", 9500),
   PathwayRow(2, "sociology", "family", 8000),
   PathwayRow(3, "physiology", "health", 6500),
   PathwayRow(4, "psychology", "fear", 3500),
   PathwayRow(5, "sociology", "trust", 3500),
   PathwayRow(6, "physiology", "body", 2000),
   PathwayRow(7, "psychology", "desire", 100),
   PathwayRow(8, "sociology", "belonging", 50)}

\* The tables the landscape is loaded from.
Tables ==
  {{}, {r \in StoredRows : r.id >= 7}, {r \in StoredRows : r.id \in {3, 7}},
   {r \in StoredRows : r.id <= 5}, {r \in StoredRows : r.id \in {4, 5, 6}},
   StoredRows}

\* Pathway lists a caller of buildSystemPrompt makes itself.
CallerPathways ==
  LET shown(id) == presented(CHOOSE r \in StoredRows : r.id = id)
  IN {<<shown(6), shown(1), shown(3)>>,
      <<shown(6), shown(4), shown(3), shown(2), shown(1), shown(5)>>,
      <<shown(2), shown(1)>>}

NoAnalysis == [weight |-> 0]

NoPrompt == [blocks |-> <<>>]

\* analyzeMessage(message) is called.
Analyze(message) ==
  /\ analysis = NoAnalysis
  /\ analysis' = analyzeMessage(message)
  /\ UNCHANGED <<registryVars, senderVars, timingVars, turnVars, storeVars, classifierVars, gateVars, landscape, loaded, prompt,
                 assemblies>>

\* The caller takes the landscape loadConductanceLandscape returns for a table
\* (part_002, lines 177-206).
LoadLandscape(rows) ==
  /\ landscape = NoLandscape
  /\ prompt = NoPrompt
  /\ \E q \in selectLandscape(rows) :
       landscape' = [pathways |-> [i \in DOMAIN q |-> presented(q[i])],
                     sessionCount |-> sessions]
  /\ loaded' = TRUE
  /\ UNCHANGED <<registryVars, senderVars, timingVars, turnVars, storeVars, classifierVars, gateVars, analysis, prompt, assemblies>>

\* The caller makes the landscape itself.
MakeLandscape(pathwayList) ==
  /\ landscape = NoLandscape
  /\ prompt = NoPrompt
  /\ landscape' = [pathways |-> pathwayList, sessionCount |-> sessions]
  /\ UNCHANGED <<registryVars, senderVars, timingVars, turnVars, storeVars, classifierVars, gateVars, analysis, loaded, prompt,
                 assemblies>>

\* buildSystemPrompt(analysis, landscape, regenerationConstraints) is called.
Assemble(regenerationConstraints) ==
  /\ analysis # NoAnalysis
  /\ assemblies < MaxAssemblies
  /\ assemblies' = assemblies + 1
  /\ LET built == buildSystemPrompt(analysis, landscape, regenerationConstraints)
     IN /\ prompt' = built.prompt
        /\ landscape' = built.conductanceData
  /\ UNCHANGED <<registryVars, senderVars, timingVars, turnVars, storeVars, classifierVars, gateVars, analysis, loaded>>

\* The regeneration constraints a call is made with: none, or those of a
\* response that abandoned.
RegenerationConstraints ==
  {NullConstraints, buildRegenerationConstraints(<<Violation("NEVER_ABANDONS", "CRITICAL")>>)}

PromptInit ==
  /\ analysis = NoAnalysis
  /\ landscape = NoLandscape
  /\ loaded = FALSE
  /\ prompt = NoPrompt
  /\ assemblies = 0

\* ============================ timing tracker (services/backchannel.js)
\* class TimingTracker (lines 202-257).  Times are Date.now() in milliseconds,
\* which is positive; a field that is null holds 0, which the tests of
\* getReport (lines 227-237) treat as they treat null.
NullTime == 0

\* A clock of the report: null, or a number of milliseconds.
NullClock == [null |-> TRUE, ms |-> 0]

Clock(ms) == [null |-> FALSE, ms |-> ms]

\* ToNumber of a clock, as the relational operators apply it: null is 0.
ToNumber(clock) == IF clock.null THEN 0 ELSE clock.ms

\* const clockA / clockB / clockC (lines 229-239)
clockOf(markTime) ==
  IF markTime # NullTime THEN Clock(markTime - utteranceEndTime) ELSE NullClock

\* clockX_met as the test of the summary makes it.
metOfCoerced(clock, target) == ToNumber(clock) <= target

\* clockX_met (lines 244, 248, 252)
metOf(clock, target) == ~clock.null /\ clock.ms <= target

\* The mark of a clock in summary (line 254): the check mark (TRUE) or the cross.
summaryMark(clock, target) == ToNumber(clock) <= target

\* The targets of lines 243, 247 and 251.
clockA_target == 300
clockB_target == 700
clockC_target == 1200

\* null, as a report.
NoReport == [null |-> TRUE]

\* getReport() (lines 226-256)
getReport ==
  IF utteranceEndTime = NullTime THEN NoReport
  ELSE LET clockA == clockOf(backchannelSentTime)
           clockB == clockOf(firstContentTime)
           clockC == clockOf(responseCompleteTime)
       IN [null |-> FALSE,
           clockA_ms |-> clockA, clockA_target |-> clockA_target,
           clockA_met |-> metOf(clockA, clockA_target),
           clockB_ms |-> clockB, clockB_target |-> clockB_target,
           clockB_met |-> metOf(clockB, clockB_target),
           clockC_ms |-> clockC, clockC_target |-> clockC_target,
           clockC_met |-> metOf(clockC, clockC_target),
           summary |-> [A |-> summaryMark(clockA, clockA_target),
                        B |-> summaryMark(clockB, clockB_target),
                        C |-> summaryMark(clockC, clockC_target)]]

\* Milliseconds that pass between two calls on the tracker.
Passing == {200, 500}

\* Time passes.
Elapse(ms) ==
  /\ elapses < MaxElapses
  /\ elapses' = elapses + 1
  /\ dateNow' = dateNow + ms
  /\ UNCHANGED <<registryVars, senderVars, turnVars, storeVars, classifierVars, gateVars, promptVars, utteranceEndTime,
                 backchannelSentTime, firstContentTime, responseCompleteTime,
                 timingReport, marks>>

\* markUtteranceEnd() (lines 210-212)
markUtteranceEnd ==
  /\ marks < MaxMarks
  /\ marks' = marks + 1
  /\ utteranceEndTime' = dateNow
  /\ UNCHANGED <<registryVars, senderVars, turnVars, storeVars, classifierVars, gateVars, promptVars, dateNow, elapses,
                 backchannelSentTime, firstContentTime, responseCompleteTime, timingReport>>

\* markBackchannelSent() (lines 214-216)
markBackchannelSent ==
  /\ marks < MaxMarks
  /\ marks' = marks + 1
  /\ backchannelSentTime' = dateNow
  /\ UNCHANGED <<registryVars, senderVars, turnVars, storeVars, classifierVars, gateVars, promptVars, dateNow, elapses,
                 utteranceEndTime, firstContentTime, responseCompleteTime, timingReport>>

\* markFirstContent() (lines 218-220)
markFirstContent ==
  /\ marks < MaxMarks
  /\ marks' = marks + 1
  /\ firstContentTime' = dateNow
  /\ UNCHANGED <<registryVars, senderVars, turnVars, storeVars, classifierVars, gateVars, promptVars, dateNow, elapses,
                 utteranceEndTime, backchannelSentTime, responseCompleteTime, timingReport>>

\* markResponseComplete() (lines 222-224)
markResponseComplete ==
  /\ marks < MaxMarks
  /\ marks' = marks + 1
  /\ responseCompleteTime' = dateNow
  /\ UNCHANGED <<registryVars, senderVars, turnVars, storeVars, classifierVars, gateVars, promptVars, dateNow, elapses,
                 utteranceEndTime, backchannelSentTime, firstContentTime, timingReport>>

\* getReport() is called.
GetReport ==
  /\ timingReport' = getReport
  /\ UNCHANGED <<registryVars, senderVars, turnVars, storeVars, classifierVars, gateVars, promptVars, dateNow, elapses,
                 utteranceEndTime, backchannelSentTime, firstContentTime,
                 responseCompleteTime, marks>>

\* new TimingTracker() (lines 203-208), at some time of the clock; no report
\* has been asked for.
TimingInit ==
  /\ utteranceEndTime = NullTime
  /\ backchannelSentTime = NullTime
  /\ firstContentTime = NullTime
  /\ responseCompleteTime = NullTime
  /\ dateNow = 1000
  /\ timingReport = NoReport
  /\ marks = 0
  /\ elapses = 0

\* ======================= backchannel sender (services/backchannel.js)
\* const BACKCHANNELS (lines 39-89): the verbal signals and the avatar cue of
\* each set.
BackchannelSet(verbal, avatarCue, description) ==
  [verbal |-> verbal, avatarCue |-> avatarCue, description |-> description]

BACKCHANNELS ==
  [low |-> BackchannelSet(<<"Mm.", "Mm-hm.", "Hm.">>, "gentle_nod", "Light acknowledgment"),
   medium |-> BackchannelSet(<<"Mm.", "Oh.", "Hm.">>, "attentive_lean", "Attentive signal"),
   physical |-> BackchannelSet(<<"Mm.", "Oh.">>, "slow_nod", "Grounded acknowledgment"),
   relational |-> BackchannelSet(<<"Oh.", "...">>, "soft_concern", "Relational holding"),
   covenant |-> BackchannelSet(<<"...">>, "still_presence", "Witness silence"),
   celebration |-> BackchannelSet(<<"Oh!", "Wait-">>, "eyes_widen", "Excited attention"),
   resistance |-> BackchannelSet(<<"Okay.">>, "gentle_retreat", "Boundary respect")]

\* The set selectBackchannel(classificationResult) selects from (lines 96-117).
selectedSet(classificationResult) ==
  IF classificationResult.hasCriticalResistance THEN BACKCHANNELS.resistance
  ELSE IF classificationResult.mood.mode = "JOYFUL" THEN BACKCHANNELS.celebration
  ELSE IF classificationResult.weight >= 21 THEN BACKCHANNELS.covenant
  ELSE IF classificationResult.weight >= 13 THEN BACKCHANNELS.relational
  ELSE IF classificationResult.weight >= 8 THEN BACKCHANNELS.physical
  ELSE IF classificationResult.weight >= 5 THEN BACKCHANNELS.medium
  ELSE BACKCHANNELS.low

\* selectFromSet(set) (lines 119-126): every backchannel Math.random may pick.
selectFromSet(set) ==
  {[text |-> set.verbal[i], avatarCue |-> set.avatarCue, description |-> set.description] :
     i \in DOMAIN set.verbal}

\* The test of line 146 as one that never holds.
neverSilence(chosen) == FALSE

\* backchannel.text === '...' (line 146)
isSilence(chosen) == chosen.text = "..."

\* The messages of lines 139-143, 175, 176 and 147-152 / 185-190.
AvatarCue(chosen) ==
  [type |-> "avatar_cue", cue |-> chosen.avatarCue, text |-> "", size |-> 0]

BackchannelAudio(size) ==
  [type |-> "backchannel_audio", cue |-> "", text |-> "", size |-> size]

Binary(size) == [type |-> "binary", cue |-> "", text |-> "", size |-> size]

BackchannelSent(chosen) ==
  [type |-> "backchannel_sent", cue |-> chosen.avatarCue, text |-> chosen.text, size |-> 0]

\* The classification results sendBackchannel is called with.
BackchannelInputs ==
  {[weight |-> w, mood |-> [mode |-> m], hasCriticalResistance |-> c, hasResistance |-> c] :
     w \in {1, 5, 8, 13, 21}, m \in {"WARM_PRESENCE", "JOYFUL"}, c \in BOOLEAN}

NoBackchannel == [text |-> ""]

\* Bytes of the chunks of a backchannel's audio stream.
BackchannelChunkSizes == {3200, 6400}

\* sendBackchannel(ws, elevenlabs, voiceId, classificationResult) from its entry
\* to its first await (lines 133-166) or, for silence, to its return (line 153).
sendBackchannelCall(classificationResult) ==
  /\ bcPc = "idle"
  /\ \E chosen \in selectFromSet(selectedSet(classificationResult)) :
       /\ backchannel' = chosen
       /\ IF isSilence(chosen)
          THEN /\ bcSocket' = bcSocket \o <<AvatarCue(chosen), BackchannelSent(chosen)>>
               /\ bcPc' = "returned"
               /\ UNCHANGED ttsConverts
          ELSE /\ bcSocket' = Append(bcSocket, AvatarCue(chosen))
               /\ bcPc' = "convert"
               /\ ttsConverts' = ttsConverts + 1
  /\ UNCHANGED <<registryVars, turnVars, storeVars, classifierVars, gateVars, promptVars, timingVars,
                 bcChunks, audioVars>>

\* textToSpeech.convert resolves with the audio stream (line 159).
sendBackchannelConverted ==
  /\ bcPc = "convert"
  /\ bcPc' = "stream"
  /\ UNCHANGED <<registryVars, turnVars, storeVars, classifierVars, gateVars, promptVars, timingVars,
                 backchannel, bcSocket, bcChunks, ttsConverts, audioVars>>

\* The stream delivers a chunk (lines 170-172).
sendBackchannelChunk(size) ==
  /\ bcPc = "stream"
  /\ Len(bcChunks) < MaxBackchannelChunks
  /\ bcChunks' = Append(bcChunks, size)
  /\ UNCHANGED <<registryVars, turnVars, storeVars, classifierVars, gateVars, promptVars, timingVars,
                 backchannel, bcSocket, bcPc, ttsConverts, audioVars>>

\* The stream ends: the audio is sent as one chunk and backchannel_sent after
\* it (lines 173-176 and 183-194).
sendBackchannelStreamed ==
  /\ bcPc = "stream"
  /\ LET audioBuffer == Sum(bcChunks)
     IN bcSocket' = bcSocket \o <<BackchannelAudio(audioBuffer), Binary(audioBuffer),
                                   BackchannelSent(backchannel)>>
  /\ bcPc' = "returned"
  /\ UNCHANGED <<registryVars, turnVars, storeVars, classifierVars, gateVars, promptVars, timingVars,
                 backchannel, bcChunks, ttsConverts, audioVars>>

\* convert rejects or the stream throws: the catch of lines 178-181 and then
\* lines 183-194.
sendBackchannelTtsError ==
  /\ bcPc \in {"convert", "stream"}
  /\ bcSocket' = Append(bcSocket, BackchannelSent(backchannel))
  /\ bcPc' = "returned"
  /\ UNCHANGED <<registryVars, turnVars, storeVars, classifierVars, gateVars, promptVars, timingVars,
                 backchannel, bcChunks, ttsConverts, audioVars>>

BackchannelInit ==
  /\ bcPc = "idle"
  /\ backchannel = NoBackchannel
  /\ bcSocket = <<>>
  /\ bcChunks = <<>>
  /\ ttsConverts = 0

\* ============================== audio streaming (server.js, lines 99-127)
\* A byte of the audio stream is named by its position in the stream; a Buffer
\* is the sequence of its bytes.

\* const SIMLI_CHUNK_SIZE (line 30)
SIMLI_CHUNK_SIZE == 6000

\* buffer.slice(0, SIMLI_CHUNK_SIZE) (line 108)
sliceChunk(buf) == SubSeq(buf, 1, SIMLI_CHUNK_SIZE)

\* The rest of the buffer from the last byte of the chunk on.
sliceRestFromLast(buf) == SubSeq(buf, SIMLI_CHUNK_SIZE, Len(buf))

\* buffer.slice(SIMLI_CHUNK_SIZE) (line 109)
sliceRest(buf) == SubSeq(buf, SIMLI_CHUNK_SIZE + 1, Len(buf))

\* The messages of lines 112-113 and 120-121: the header and the binary chunk.
AudioChunkHeader(size) == [type |-> "audio_chunk", size |-> size, bytes |-> <<>>]

AudioBinary(bytes) == [type |-> "binary", size |-> Len(bytes), bytes |-> bytes]

\* The while loop of lines 107-115 on the buffer, the socket and the total.
RECURSIVE sendFullChunks(_)
sendFullChunks(s) ==
  IF Len(s.buffer) >= SIMLI_CHUNK_SIZE
  THEN LET audioChunk == sliceChunk(s.buffer)
       IN sendFullChunks(
            [buffer |-> sliceRest(s.buffer),
             socket |-> s.socket \o <<AudioChunkHeader(Len(audioChunk)), AudioBinary(audioChunk)>>,
             total |-> s.total + Len(audioChunk)])
  ELSE s

\* Bytes of the chunks the audio stream delivers.
AudioChunkSizes == {1000, 2500, 6000, 9500}

\* streamAudioToClient(ws, audioStream) is called (lines 99-101).
streamAudioToClientCall ==
  /\ audioPc = "idle"
  /\ audioPc' = "streaming"
  /\ buffer' = <<>>
  /\ totalBytesSent' = 0
  /\ UNCHANGED <<registryVars, turnVars, storeVars, classifierVars, gateVars, promptVars, timingVars,
                 backchannelVars, audioSocket, received, audioChunks>>

\* The stream delivers a chunk of size bytes, the next bytes of the stream
\* (lines 103-115).
streamAudioChunk(size) ==
  /\ audioPc = "streaming"
  /\ audioChunks < MaxAudioChunks
  /\ audioChunks' = audioChunks + 1
  /\ received' = received + size
  /\ LET chunk == [i \in 1..size |-> received + i]
         after == sendFullChunks([buffer |-> buffer \o chunk, socket |-> audioSocket,
                                  total |-> totalBytesSent])
     IN /\ buffer' = after.buffer
        /\ audioSocket' = after.socket
        /\ totalBytesSent' = after.total
  /\ UNCHANGED <<registryVars, turnVars, storeVars, classifierVars, gateVars, promptVars, timingVars,
                 backchannelVars, audioPc>>

\* The stream ends: the remaining audio is sent and the total returned
\* (lines 118-126).
streamAudioEnds ==
  /\ audioPc = "streaming"
  /\ audioPc' = "returned"
  /\ IF Len(buffer) > 0
     THEN /\ audioSocket' = audioSocket \o <<AudioChunkHeader(Len(buffer)), AudioBinary(buffer)>>
          /\ totalBytesSent' = totalBytesSent + Len(buffer)
     ELSE UNCHANGED <<audioSocket, totalBytesSent>>
  /\ UNCHANGED <<registryVars, turnVars, storeVars, classifierVars, gateVars, promptVars, timingVars,
                 backchannelVars, buffer, received, audioChunks>>

\* The stream throws: streamAudioToClient rejects at line 103.
streamAudioFails ==
  /\ audioPc = "streaming"
  /\ audioPc' = "rejected"
  /\ UNCHANGED <<registryVars, turnVars, storeVars, classifierVars, gateVars, promptVars, timingVars,
                 backchannelVars, buffer, totalBytesSent, audioSocket, received, audioChunks>>

AudioInit ==
  /\ audioPc = "idle"
  /\ buffer = <<>>
  /\ totalBytesSent = 0
  /\ audioSocket = <<>>
  /\ received = 0
  /\ audioChunks = 0

\* ========================= the active-conversation registry (atelier.js)
\* A connection is named by its sessionId (generateSessionId, server.js
\* lines 130-132, 188).
Connections == 1..MaxConnections

Others == <<turnVars, storeVars, classifierVars, gateVars, promptVars, timingVars, senderVars>>

\* wss.on('connection') up to its await of line 203: startAtelierConversation
\* returns null without a Supabase client (atelier.js 19-22); with one it
\* enters the session (line 34) and awaits the insert (lines 37-46).
Connect(c) ==
  /\ connections[c].pc = "none"
  /\ IF supabase
     THEN /\ activeConversations' = activeConversations \cup {c}
          /\ connections' = [connections EXCEPT ![c].pc = "starting", ![c].socketOpen = TRUE]
     ELSE /\ connections' = [connections EXCEPT ![c].pc = "open", ![c].socketOpen = TRUE]
          /\ UNCHANGED activeConversations
  /\ UNCHANGED <<Others, supabase>>

\* The insert returns (atelier.js 48-67): with an error the function returns
\* null, otherwise the session is set again (line 54). The connection handler
\* then goes on to register its 'message' and 'close' listeners (server.js
\* 368-432); a socket that closed in the meantime has emitted 'close' already.
startAtelierConversationReturns(c, error) ==
  /\ connections[c].pc = "starting"
  /\ activeConversations' = IF error THEN activeConversations
                            ELSE activeConversations \cup {c}
  /\ connections' = [connections EXCEPT
                       ![c].pc = IF connections[c].socketOpen THEN "open" ELSE "unheard"]
  /\ UNCHANGED <<Others, supabase>>

\* ws.on('message') with {type: 'atelier_dashboard_register'} (server.js 398-408).
registerDashboard(c) ==
  /\ connections[c].pc = "open"
  /\ ~connections[c].isAtelierDashboard
  /\ connections' = [connections EXCEPT ![c].isAtelierDashboard = TRUE]
  /\ UNCHANGED <<Others, activeConversations, supabase>>

\* The client socket closes. With the listener of lines 415-432 registered:
\* a dashboard connection skips endAtelierConversation (line 425); otherwise
\* endAtelierConversation returns at once for a session it does not hold
\* (atelier.js 219-220), deletes at once without a Supabase client (222-225),
\* and else awaits the update (lines 243-251).
SocketCloses(c) ==
  /\ connections[c].socketOpen
  /\ IF connections[c].pc = "starting"
     THEN /\ connections' = [connections EXCEPT ![c].socketOpen = FALSE]
          /\ UNCHANGED activeConversations
     ELSE /\ connections[c].pc = "open"
          /\ IF connections[c].isAtelierDashboard \/ c \notin activeConversations
             THEN /\ connections' = [connections EXCEPT ![c].socketOpen = FALSE,
                                                       ![c].pc = "closed"]
                  /\ UNCHANGED activeConversations
             ELSE IF ~supabase
             THEN /\ activeConversations' = activeConversations \ {c}
                  /\ connections' = [connections EXCEPT ![c].socketOpen = FALSE,
                                                       ![c].pc = "closed"]
             ELSE /\ connections' = [connections EXCEPT ![c].socketOpen = FALSE,
                                                       ![c].pc = "ending"]
                  /\ UNCHANGED activeConversations
  /\ UNCHANGED <<Others, supabase>>

\* The update of endAtelierConversation returns: the session is deleted
\* (atelier.js 258) and the close listener ends (server.js 426-430).
endAtelierConversationReturns(c) ==
  /\ connections[c].pc = "ending"
  /\ activeConversations' = activeConversations \ {c}
  /\ connections' = [connections EXCEPT ![c].pc = "closed"]
  /\ UNCHANGED <<Others, supabase>>

RegistryInit ==
  /\ activeConversations = {}
  /\ connections = [c \in Connections |->
                      [pc |-> "none", socketOpen |-> FALSE, isAtelierDashboard |-> FALSE]]
  /\ supabase \in BOOLEAN

\* Every part of the program before anything has happened.
Constructed ==
  /\ TurnInit /\ StoreInit /\ ClassifierInit /\ GateInit /\ PromptInit /\ TimingInit
  /\ BackchannelInit /\ AudioInit /\ RegistryInit

\* Outside the registry the program is followed with a Supabase client.
Init == Constructed /\ supabase

Next ==
  \/ FinalTranscript
  \/ UtteranceEnd
  \/ SpeechStarted
  \/ UtteranceTimeoutFires
  \/ StartGeneration
  \/ StreamText
  \/ GenerationComplete
  \/ GenerationFails
  \/ Synthesize
  \/ DeliverAudio
  \/ SynthesisFails
  \/ ReleaseTurn
  \/ Transcript
  \/ UtteranceEndStreaming
  \/ StreamTextStreaming
  \/ GenerationCompleteStreaming
  \/ GenerationFailsStreaming
  \/ DeliverChunkAudio
  \/ ChunkSynthesisFails
  \/ ResponseComplete

Spec == Init /\ [][Next]_vars

\* The connection when its client may close it and an Atelier logging await may
\* reject.
ConnNext ==
  \/ Next
  \/ Close
  \/ LoggingFails

ConnSpec == Init /\ [][ConnNext]_vars

\* A step of a running processUtterance / utterance_end body: each await of the
\* body settles, one way or the other.
BodyStep ==
  \/ StartGeneration
  \/ LoggingFails
  \/ GenerationComplete
  \/ GenerationFails
  \/ Synthesize
  \/ DeliverAudio
  \/ SynthesisFails
  \/ GenerationCompleteStreaming
  \/ GenerationFailsStreaming
  \/ DeliverChunkAudio
  \/ ChunkSynthesisFails
  \/ ResponseComplete

\* The event loop runs every pending continuation and every timer that is due.
LiveSpec == ConnSpec /\ WF_vars(BodyStep) /\ WF_vars(ReleaseTurn)

\* The accumulator is called by no connection: the connection stays as it starts.
AccumulatorInit == Init /\ program = "atelier"

\* The accumulator with calls that do not overlap: a call begins when no other
\* is running, and the clock advances between calls.
StoreNext ==
  \/ \E c \in Classifications :
       Idle /\ reinforceCalls < MaxReinforce /\ reinforcePathwayCall(1, c)
  \/ \E p \in Procs : reinforcePathwaySelect(p)
  \/ \E p \in Procs : reinforcePathwayWrite(p)
  \/ Idle /\ loadCalls < MaxLoads /\ loadConductanceLandscapeCall
  \/ applyDecayRead
  \/ applyDecayWrite
  \/ prunePathways
  \/ selectPathways
  \/ countSessions
  \/ \E d \in TickSteps : Idle /\ Tick(d)

StoreSpec == AccumulatorInit /\ [][StoreNext]_vars

\* The accumulator with overlapping calls: two callers of reinforcePathway and
\* one of loadConductanceLandscape, their store calls interleaved.
ConcNext ==
  \/ \E p \in Procs : \E c \in Classifications :
       reinforceCalls < MaxOverlapping /\ reinforcePathwayCall(p, c)
  \/ \E p \in Procs : reinforcePathwaySelect(p)
  \/ \E p \in Procs : reinforcePathwayWrite(p)
  \/ loadCalls < MaxLoads /\ loadConductanceLandscapeCall
  \/ applyDecayRead
  \/ applyDecayWrite
  \/ prunePathways
  \/ selectPathways
  \/ countSessions
  \/ logConductanceSession
  \/ \E d \in TickSteps : Tick(d)

ConcSpec == AccumulatorInit /\ [][ConcNext]_vars

\* ---- store calls that fail.  A supabase call either answers { data: null,
\* error } or rejects; the code's reaction to each is translated below.

\* return { pathways: [], sessionCount: 0 }                 (lines 188, 210)
emptyLandscape == [pathways |-> <<>>, sessionCount |-> 0]

\* The query of lines 70-76 answers with an error: the error is not read,
\* existing is null and the call goes on to the insert of line 118.
reinforcePathwaySelectFails(p) ==
  /\ call[p].pc = "select"
  /\ call' = [call EXCEPT ![p].pc = "write", ![p].existing = NoRow]
  /\ faults' = faults \cup {p}
  /\ UNCHANGED <<registryVars, senderVars, timingVars, promptVars, gateVars, classifierVars, turnVars, pathways, nextId, sessions, now, lpc, updates, selected,
                 reinforceCalls, loadCalls, ticks, trail>>

\* The query of lines 70-76 rejects: catch, return null (lines 141-144).
reinforcePathwaySelectThrows(p) ==
  /\ call[p].pc = "select"
  /\ trail' = Push(trail, Reinforced(call[p].cls, call[p].before, NoRow))
  /\ call' = [call EXCEPT ![p] = NoCall]
  /\ faults' = faults \cup {p}
  /\ UNCHANGED <<registryVars, senderVars, timingVars, promptVars, gateVars, classifierVars, turnVars, pathways, nextId, sessions, now, lpc, updates, selected,
                 reinforceCalls, loadCalls, ticks>>

\* The update of line 94 or the insert of line 118 answers with an error or
\* rejects: return null (lines 106-109, 133-136, 141-144).
reinforcePathwayWriteFails(p) ==
  /\ call[p].pc = "write"
  /\ trail' = Push(trail, Reinforced(call[p].cls, call[p].before, NoRow))
  /\ call' = [call EXCEPT ![p] = NoCall]
  /\ faults' = faults \cup {p}
  /\ UNCHANGED <<registryVars, senderVars, timingVars, promptVars, gateVars, classifierVars, turnVars, pathways, nextId, sessions, now, lpc, updates, selected,
                 reinforceCalls, loadCalls, ticks>>

\* applyDecay: the query of line 223 answers with an error (pathways is null,
\* line 228 returns) or rejects (catch of line 264): nothing is decayed or
\* pruned, and loadConductanceLandscape goes on to its query.
applyDecayReadFails ==
  /\ lpc = "decay"
  /\ lpc' = "select"
  /\ faults' = faults \cup {Loader}
  /\ UNCHANGED <<registryVars, senderVars, timingVars, promptVars, gateVars, classifierVars, turnVars, pathways, nextId, sessions, now, call, updates, selected,
                 reinforceCalls, loadCalls, ticks, trail>>

\* applyDecay: an update of line 251 answers with an error; the answer is not
\* read and the loop goes on.
applyDecayWriteFails ==
  /\ lpc = "write"
  /\ updates' = Tail(updates)
  /\ lpc' = IF Tail(updates) = <<>> THEN "prune" ELSE "write"
  /\ faults' = faults \cup {Loader}
  /\ UNCHANGED <<registryVars, senderVars, timingVars, promptVars, gateVars, classifierVars, turnVars, pathways, nextId, sessions, now, call, selected,
                 reinforceCalls, loadCalls, ticks, trail>>

\* applyDecay: an update of line 251 rejects: the catch of line 264 ends
\* applyDecay, the remaining updates and the prune are skipped.
applyDecayWriteThrows ==
  /\ lpc = "write"
  /\ updates' = <<>>
  /\ lpc' = "select"
  /\ faults' = faults \cup {Loader}
  /\ UNCHANGED <<registryVars, senderVars, timingVars, promptVars, gateVars, classifierVars, turnVars, pathways, nextId, sessions, now, call, selected,
                 reinforceCalls, loadCalls, ticks, trail>>

\* prunePathways: the delete answers with an error or rejects; it is logged
\* (lines 286-291).
prunePathwaysFails ==
  /\ lpc = "prune"
  /\ lpc' = "select"
  /\ faults' = faults \cup {Loader}
  /\ UNCHANGED <<registryVars, senderVars, timingVars, promptVars, gateVars, classifierVars, turnVars, pathways, nextId, sessions, now, call, updates, selected,
                 reinforceCalls, loadCalls, ticks, trail>>

\* The query of lines 178-184 answers with an error or rejects: the empty
\* landscape is returned (lines 186-189, 208-211).
selectPathwaysFails ==
  /\ lpc = "select"
  /\ trail' = Push(trail, Loaded(emptyLandscape))
  /\ lpc' = "idle"
  /\ faults' = faults \cup {Loader}
  /\ UNCHANGED <<registryVars, senderVars, timingVars, promptVars, gateVars, classifierVars, turnVars, pathways, nextId, sessions, now, call, updates, selected,
                 reinforceCalls, loadCalls, ticks>>

\* The count of lines 192-195 answers with an error: count is null and the
\* landscape is returned with sessionCount 0 (line 206).
countSessionsFails ==
  /\ lpc = "count"
  /\ trail' = Push(trail, Loaded([pathways |-> [i \in DOMAIN selected |->
                                                  presented(selected[i])],
                                  sessionCount |-> 0]))
  /\ selected' = <<>>
  /\ lpc' = "idle"
  /\ faults' = faults \cup {Loader}
  /\ UNCHANGED <<registryVars, senderVars, timingVars, promptVars, gateVars, classifierVars, turnVars, pathways, nextId, sessions, now, call, updates,
                 reinforceCalls, loadCalls, ticks>>

\* The count of lines 192-195 rejects: catch, the empty landscape is returned
\* (lines 208-211).
countSessionsThrows ==
  /\ lpc = "count"
  /\ trail' = Push(trail, Loaded(emptyLandscape))
  /\ selected' = <<>>
  /\ lpc' = "idle"
  /\ faults' = faults \cup {Loader}
  /\ UNCHANGED <<registryVars, senderVars, timingVars, promptVars, gateVars, classifierVars, turnVars, pathways, nextId, sessions, now, call, updates,
                 reinforceCalls, loadCalls, ticks>>

\* The accumulator with calls that do not overlap and store calls that may
\* fail.
FaultNext ==
  \/ \E c \in Classifications :
       Idle /\ reinforceCalls < MaxFaultCalls /\ reinforcePathwayCall(1, c)
  \/ reinforcePathwaySelect(1)
  \/ reinforcePathwayWrite(1)
  \/ Idle /\ loadCalls < MaxLoads /\ loadConductanceLandscapeCall
  \/ applyDecayRead
  \/ applyDecayWrite
  \/ prunePathways
  \/ selectPathways
  \/ countSessions
  \/ logConductanceSession
  \/ \E d \in TickSteps : Idle /\ Tick(d)
  \/ reinforcePathwaySelectFails(1)
  \/ reinforcePathwaySelectThrows(1)
  \/ reinforcePathwayWriteFails(1)
  \/ applyDecayReadFails
  \/ applyDecayWriteFails
  \/ applyDecayWriteThrows
  \/ prunePathwaysFails
  \/ selectPathwaysFails
  \/ countSessionsFails
  \/ countSessionsThrows

FaultSpec == AccumulatorInit /\ [][FaultNext]_vars

\* The classifier alone: utterances are put together and classified.
ClassifierNext ==
  \/ \E phrase \in Phrases : Hear(phrase)
  \/ Classify

ClassifierSpec == AccumulatorInit /\ [][ClassifierNext]_vars

\* The gate applied to the responses put together from the deltas; a delta
\* that continues a response starts with the space that separates it.
GateNext ==
  \/ \E text \in Deltas : Delta(IF llmResponse = "" THEN text ELSE " " \o text)
  \/ \E module \in GateModules : \E c \in GateInputs(module) : Enforce(module, c)

GateSpec == AccumulatorInit /\ [][GateNext]_vars

\* The prompt engine applied to analysed utterances and landscapes.
PromptNext ==
  \/ \E message \in Utterances : Analyze(message)
  \/ \E rows \in Tables : LoadLandscape(rows)
  \/ \E pathwayList \in CallerPathways : MakeLandscape(pathwayList)
  \/ \E regenerationConstraints \in RegenerationConstraints : Assemble(regenerationConstraints)

PromptSpec == AccumulatorInit /\ [][PromptNext]_vars

\* A TimingTracker under any order of its calls.
TimingNext ==
  \/ \E ms \in Passing : Elapse(ms)
  \/ markUtteranceEnd
  \/ markBackchannelSent
  \/ markFirstContent
  \/ markResponseComplete
  \/ GetReport

TimingSpec == AccumulatorInit /\ [][TimingNext]_vars

\* One call of sendBackchannel.
BackchannelNext ==
  \/ \E classificationResult \in BackchannelInputs : sendBackchannelCall(classificationResult)
  \/ sendBackchannelConverted
  \/ \E size \in BackchannelChunkSizes : sendBackchannelChunk(size)
  \/ sendBackchannelStreamed
  \/ sendBackchannelTtsError

BackchannelSpec == AccumulatorInit /\ [][BackchannelNext]_vars

\* One call of streamAudioToClient.
AudioNext ==
  \/ streamAudioToClientCall
  \/ \E size \in AudioChunkSizes : streamAudioChunk(size)
  \/ streamAudioEnds
  \/ streamAudioFails

AudioSpec == AccumulatorInit /\ [][AudioNext]_vars

\* Connections open, register as dashboards and close in any order.
RegistryNext ==
  \/ \E c \in Connections : Connect(c)
  \/ \E c \in Connections, error \in BOOLEAN : startAtelierConversationReturns(c, error)
  \/ \E c \in Connections : registerDashboard(c)
  \/ \E c \in Connections : SocketCloses(c)
  \/ \E c \in Connections : endAtelierConversationReturns(c)

\* The registry with or without a Supabase client.
RegistryStart == Constructed /\ program = "atelier"

RegistrySpec == RegistryStart /\ [][RegistryNext]_vars


\* ======================================================== turn pipeline claims
\* Number of events of the given kind in the log of the current turn.
CountEvents(kind) == Cardinality({i \in DOMAIN events : events[i].kind = kind})

\* Generation attempts of the current turn beyond the first.
Regenerations == IF CountEvents("llm_call") > 0 THEN CountEvents("llm_call") - 1 ELSE 0

\* The turn's log ends with the delivery of a response.
TurnCompleted ==
  /\ events # <<>>
  /\ events[Len(events)].kind = "response_complete"

DeliveredResponse == events[Len(events)].text

\* C1: no response text reaches TTS, and no response audio leaves, without a
\* gate evaluation of the response after its generation attempt: every tts or
\* audio event of a turn is preceded by a gate event of that turn.
C1_GateBeforeTTS ==
  \A i \in DOMAIN events :
    events[i].kind \in {"tts", "audio"} =>
      \E j \in 1..(i - 1) : events[j].kind = "gate"

\* C2: the regeneration loop is bounded by the maximum retry count 2 and a
\* completed turn is in a terminal state of the regeneration machine: Passed
\* (the gate passes the delivered response) or Exhausted (it fails with no
\* critical violation, or with the 2 retries used up).
C2_TurnEndsPassedOrExhausted ==
  /\ Regenerations <= 2
  /\ TurnCompleted =>
       \A cls \in GateClassifications :
         LET g == enforceInvariants(DeliveredResponse, cls)
         IN \/ g.pass
            \/ ~g.pass /\ (~g.requiresRegeneration \/ Regenerations >= 2)

\* C3: from Gating (generation complete), a failing response that requires
\* regeneration while retry budget remains goes back to generation and is not
\* synthesized or delivered; in every other case (Passed, Exhausted) the turn
\* moves on to deliver the response it has.
NeedsRegeneration(t) ==
  /\ \E cls \in GateClassifications :
       enforceInvariants(turns[t].fullResponse, cls).requiresRegeneration
  /\ Regenerations < 2

C3_CriticalFailureRegenerates ==
  [][\A t \in Running :
       turns[t].pc = "logAline" =>
         IF NeedsRegeneration(t)
         THEN t \in DOMAIN turns' /\ turns'[t].pc \in {"logAline", "logUser", "llm"}
         ELSE t \notin DOMAIN turns' \/ turns'[t].pc \in {"logAline", "tts"}]_vars

\* C4: at most one turn is in flight per connection, and a final transcript
\* that arrives while a turn is running is never merged into a turn: it is in
\* no running turn's message and not in the pending transcript.
InSeq(x, q) == \E i \in DOMAIN q : q[i] = x

C4_OneTurnInFlight ==
  /\ Cardinality(Running) <= 1
  /\ \A f \in arrivedInFlight :
       /\ ~InSeq(f, currentTranscript)
       /\ \A t \in Running : ~InSeq(f, turns[t].userMessage)

\* A turn is running while a final transcript and a further utterance end have
\* arrived during it.
C4_Witness ==
  /\ Cardinality(Running) = 1
  /\ arrivedInFlight # {}
  /\ "utterance_end" \in ignored

\* ================================================ conductance accumulator claims
\* The entries of a returned landscape.
Entries(result) == {result.pathways[i] : i \in DOMAIN result.pathways}

\* The entries a returned landscape shows for the pathway a classification names.
Shown(result, c) ==
  {e \in Entries(result) : e.dimension = c.dimension /\ e.theme = extractTheme(c)}

\* <<dimension, theme, conductance>> of every entry of a returned landscape.
Conductances(result) ==
  {<<e.dimension, e.theme, e.conductance>> : e \in Entries(result)}

\* C5: when reinforcements of one pathway overlap no update is lost: the write of
\* every reinforcement that completes adds one to the reinforcement_count the
\* pathway has in the store at that moment and, as long as no decay has run,
\* applies its increment to the conductance stored at that moment, so that two
\* overlapping reinforcements leave the count grown by 2 and both increments in
\* the conductance.
C5_NoLostUpdate ==
  [][\A p \in Procs :
       (call[p].pc = "write" /\ call'[p].pc = "idle" /\ call[p].existing # NoRow)
         => \A r \in pathways :
              r.id = call[p].existing.id
                => \E w \in pathways' :
                     /\ w.id = r.id
                     /\ w.reinforcement_count = r.reinforcement_count + 1
                     /\ loadCalls = 0 =>
                          w.conductance = newConductance(r.conductance, call[p].cls)]_vars

\* Two loadConductanceLandscape calls completed one after the other with no
\* reinforcePathway call and no advance of the clock between them.
ReadTwice ==
  /\ Len(trail) = 2
  /\ trail[1].op = "load"
  /\ trail[2].op = "load"

\* C6: two loads in succession within the same day, with no reinforcement in
\* between, return the same conductance for every pathway (no double decay).
C6_RereadSameDay ==
  ReadTwice => Conductances(trail[1].result) = Conductances(trail[2].result)

\* A reinforcePathway call followed at once by a loadConductanceLandscape call.
RoundTrip ==
  /\ Len(trail) = 2
  /\ trail[1].op = "reinforce"
  /\ trail[2].op = "load"

C8_RejectedIsNoOp ==
  [][/\ \A p \in Procs :
          call'[p].pc # "idle"
            => call'[p].cls.weight >= 5 /\ extractTheme(call'[p].cls) # NoTheme
     /\ (/\ trail' # trail
         /\ trail' # <<>>
         /\ trail'[Len(trail')].op = "reinforce"
         /\ \/ trail'[Len(trail')].cls.weight < 5
            \/ extractTheme(trail'[Len(trail')].cls) = NoTheme)
          => /\ trail'[Len(trail')].returned = NoRow
             /\ pathways' = pathways
             /\ nextId' = nextId
             /\ call' = call]_vars

\* A weight-1 reinforce has returned null on a store that holds pathways.
C8_Witness ==
  /\ trail # <<>>
  /\ trail[Len(trail)].op = "reinforce"
  /\ trail[Len(trail)].cls.weight < 5
  /\ trail[Len(trail)].returned = NoRow
  /\ pathways # {}

\* C9: every stored conductance, and every conductance applyDecay is about to
\* store, lies in [minConductance, maxConductance].
C9_ConductanceInRange ==
  /\ \A r \in pathways :
       minConductance <= r.conductance /\ r.conductance <= maxConductance
  /\ \A i \in DOMAIN updates :
       minConductance <= updates[i].conductance /\ updates[i].conductance <= maxConductance

\* A pathway has been reinforced up to the ceiling while another has decayed.
C9_Witness ==
  /\ \E r \in pathways : r.conductance = maxConductance /\ r.reinforcement_count >= 5
  /\ \E r \in pathways : r.conductance < initialConductance(r.max_weight_seen)

LastCall == trail[Len(trail)]

\* C11: when a store call fails (answers with an error or rejects) during
\* reinforcePathway, the call returns null and writes nothing after the
\* failure; when one fails during loadConductanceLandscape, the empty landscape
\* (no pathways, session count 0) is returned.
C11_FailureDegrades ==
  /\ [](\A p \in Procs :
          p \in faults /\ call[p].pc = "idle" /\ trail # <<>> /\ LastCall.op = "reinforce"
            => LastCall.returned = NoRow)
  /\ [](Loader \in faults /\ lpc = "idle" /\ trail # <<>> /\ LastCall.op = "load"
          => LastCall.result = emptyLandscape)
  /\ [][\A p \in Procs :
          p \in faults /\ call[p].pc # "idle" => pathways' = pathways]_vars


\* C12: the pathway table holds at most one row per (dimension, theme) of the
\* user, whatever reinforcePathway calls ran and however they overlapped.
C12_OneRowPerTheme ==
  \A r1 \in pathways, r2 \in pathways :
    r1.dimension = r2.dimension /\ r1.theme = r2.theme => r1.id = r2.id

\* ============================================================ classifier claims
Classified == classification # NoClassification

\* What classifyMessage returns for noise (lines 246-252).
NoiseClassification ==
  /\ classification.weight = 1
  /\ classification.dimension = "noise"
  /\ classification.isNoise
  /\ classification.dimensions = <<[type |-> "noise", weight |-> 1, markers |-> <<>>]>>
  /\ classification.confessionDepth.depth = 0

\* The utterance is under the length threshold and includes a phrase of the
\* noise table.
ShortNoisePhrase ==
  LET lower == trim(toLowerCase(utterance))
  IN Len(lower) < NOISE_LENGTH /\ includesAny(lower, NOISE_PATTERNS)

\* C13: an utterance under the length threshold that a phrase of the noise
\* table matches is classified tier 1, dimension "noise", with the single noise
\* dimension entry, depth 0 and the noise flag set; nothing else is scored.
C13_ShortNoisePhraseIsNoise ==
  Classified /\ ShortNoisePhrase => NoiseClassification

\* C14: an empty or whitespace-only utterance is classified as noise, tier 1.
C14_EmptyIsNoise ==
  Classified /\ trim(utterance) = "" =>
    classification.weight = 1 /\ classification.dimension = "noise"

\* The number of depth-marker categories the utterance matches.
DepthCategories == detectConfessionDepth(utterance).depth

\* The dimensions of the utterance that score above 0.1.
Qualifying ==
  {d \in {"psychology", "sociology", "physiology"} :
     LET detected == CASE d = "psychology" -> detectPsychology(utterance)
                       [] d = "sociology" -> detectSociology(utterance)
                       [] d = "physiology" -> detectPhysiology(utterance)
     IN 10 * detected.score > ScoreScale}

\* C15: an utterance that matches at least 3 depth-marker categories and has a
\* qualifying dimension is classified tier 21 with isCovenant set, whatever the
\* noise gate decides.
C15_CovenantIsTier21 ==
  Classified /\ DepthCategories >= 3 /\ Qualifying # {} =>
    classification.weight = 21 /\ classification.confessionDepth.isCovenant

\* C16: an utterance that matches at least 2 depth-marker categories is
\* classified at tier 13 or above.
C16_DeepIsAtLeast13 ==
  Classified /\ DepthCategories >= 2 => classification.weight >= 13

\* The fixed set of tiers.
Tiers == {1, 3, 5, 8, 13, 21}

\* C17: every utterance is classified, at a tier of the fixed set; one that is
\* not noise and in which no dimension scores above 0.1 is tier 3, "context".
C17_AlwaysClassified ==
  Classified =>
    /\ classification.weight \in Tiers
    /\ ~isNoise(utterance) /\ Qualifying = {} =>
         /\ classification.weight = 3
         /\ classification.dimension = "context"
         /\ ~classification.isNoise

\* A non-empty utterance without any signal was classified tier 3, context.
C17_Witness ==
  /\ Classified
  /\ trim(utterance) # "" /\ ~isNoise(utterance) /\ Qualifying = {}
  /\ classification.weight = 3

\* C18: the qualifying dimensions are all kept in the dimensions list, which
\* is sorted descending by tier after depth elevation; the classification's tier
\* is the largest tier of the list, its dimension that of the first entry, and
\* isMultiDimensional is set iff the list has more than one entry.
C18_DimensionsKeptSorted ==
  Classified /\ ~isNoise(utterance) /\ Qualifying # {} =>
    LET dimensions == classification.dimensions
    IN /\ Len(dimensions) = Cardinality(Qualifying)
       /\ {dimensions[i].type : i \in DOMAIN dimensions} = Qualifying
       /\ \A i \in DOMAIN dimensions, j \in DOMAIN dimensions :
            i < j => dimensions[i].weight >= dimensions[j].weight
       /\ \A i \in DOMAIN dimensions : classification.weight >= dimensions[i].weight
       /\ classification.weight = dimensions[1].weight
       /\ classification.dimension = dimensions[1].type
       /\ classification.isMultiDimensional <=> (Len(dimensions) > 1)

\* Two dimensions qualified and the first was elevated by depth.
C18_Witness ==
  /\ Classified
  /\ classification.isMultiDimensional
  /\ classification.dimensions[1].elevatedByDepth
  /\ classification.dimensions[1].type = "sociology"

\* The tier the dimension mapping gives the dimension (lines 261-263).
MappedWeight(type) ==
  CASE type = "psychology" -> PSYCHOLOGY_WEIGHT
    [] type = "sociology" -> SOCIOLOGY_WEIGHT
    [] type = "physiology" -> PHYSIOLOGY_WEIGHT
    [] type = "context" -> 3
    [] type = "noise" -> 1

\* The tier of the utterance without depth elevation: noise gate, dimension
\* mapping, context fallback.
MappedTier ==
  IF isNoise(utterance) THEN 1
  ELSE IF Qualifying = {} THEN 3
  ELSE CHOOSE w \in {MappedWeight(d) : d \in Qualifying} :
         \A d \in Qualifying : w >= MappedWeight(d)

\* C19: depth elevation only raises: the final tier is at least the tier the
\* utterance has without depth elevation, and every dimension entry's tier is at
\* least the tier the dimension mapping gives its dimension.
C19_ElevationOnlyRaises ==
  Classified =>
    /\ classification.weight >= MappedTier
    /\ \A i \in DOMAIN classification.dimensions :
         classification.dimensions[i].weight
           >= MappedWeight(classification.dimensions[i].type)

\* A deep utterance whose only dimension is physiology was raised from 8 to 13.
C19_Witness ==
  /\ Classified
  /\ classification.confessionDepth.isDeep /\ ~classification.confessionDepth.isCovenant
  /\ MappedTier = 8 /\ classification.weight = 13

\* The next-lower tier of the fixed set.
LowerTier(t) == CHOOSE l \in Tiers : l < t /\ \A o \in Tiers : o < t => o <= l

\* C20: the budget of a classification at tier 8 or above is not larger than
\* the budget of the next-lower tier: neither the word ceiling of the length
\* constraint nor the token limit of the gate; at tier 21 both are at most 40.
C20_BudgetNonIncreasing ==
  Classified /\ classification.weight >= 8 =>
    LET t == classification.weight
    IN /\ getLengthConstraint(t).words <= getLengthConstraint(LowerTier(t)).words
       /\ tokenLimit(t).limited
       /\ tokenLimit(LowerTier(t)).limited
            => tokenLimit(t).tokens <= tokenLimit(LowerTier(t)).tokens
       /\ t = 21 => getLengthConstraint(t).words <= 40 /\ tokenLimit(t).tokens <= 40

\* An utterance was classified at tier 13: its budget is compared with tier 8's.
C20_Witness ==
  /\ Classified
  /\ classification.weight = 13
  /\ getLengthConstraint(13).words < getLengthConstraint(8).words
  /\ tokenLimit(13).tokens < tokenLimit(8).tokens

\* ---------------------------------------------------------------- the gate
\* enforceInvariants has returned.
Gated == gateResult # NoResult

\* The names of the invariants a list of violations holds.
Named(violations) == {violations[i].invariant : i \in DOMAIN violations}

\* The five checks of the gate that ran, applied to the response once more.
FiveChecks ==
  <<checkNeverAbandonsText(llmResponse),
    checkAlwaysCalibratesText(gateModule, llmResponse, gateInput),
    checkNeverJudgesText(gateModule, llmResponse),
    checkNeverFillsText(gateModule, llmResponse, gateInput.weight),
    checkNeverNarratesText(gateModule, llmResponse)>>

\* C22: the gate's pass flag is true exactly when its violations list is empty,
\* which is exactly when each of the five checks returns no violation.
C22_PassIffNoViolation ==
  Gated =>
    /\ gateResult.pass <=> gateResult.violations = <<>>
    /\ LET checks == FiveChecks
       IN gateResult.pass <=> \A i \in DOMAIN checks : checks[i] = <<>>

\* A response failed the gate on a single violation, found by one check only.
C22_Witness ==
  /\ Gated
  /\ ~gateResult.pass
  /\ Len(gateResult.violations) = 1
  /\ Cardinality({i \in DOMAIN FiveChecks : FiveChecks[i] # <<>>}) = 1

\* result.requiresRegeneration as a caller's if statement reads it.
requiresRegeneration(result) ==
  "requiresRegeneration" \in DOMAIN result /\ result.requiresRegeneration

\* Crisis and referral phrases of a response.
CrisisPhrases == {"please call", "988", "hotline", "seek help"}
HasCrisisPhrase == \E k \in CrisisPhrases : includes(toLowerCase(llmResponse), k)

\* C23: the result asks for regeneration exactly when a violation is critical,
\* which is exactly when a NEVER_ABANDONS violation is present; a response with
\* a crisis or referral phrase gets both, whatever the classification.
C23_CriticalRegenerates ==
  Gated =>
    LET v == gateResult.violations
        critical == \E i \in DOMAIN v : v[i].severity = "CRITICAL"
        abandons == "NEVER_ABANDONS" \in Named(v)
    IN /\ critical <=> abandons
       /\ requiresRegeneration(gateResult) <=> critical
       /\ HasCrisisPhrase => abandons /\ requiresRegeneration(gateResult)

\* The invariants in the order of their priority (invariant-gate.js, lines 13-18).
PRIORITY ==
  <<"NEVER_ABANDONS", "ALWAYS_CALIBRATES", "NEVER_JUDGES", "NEVER_FILLS", "NEVER_NARRATES">>

\* The hints a result carries: none when the field is missing or null.
HintsOf(result) ==
  IF "regenerationConstraints" \in DOMAIN result /\ ~result.regenerationConstraints.null
  THEN result.regenerationConstraints.lines ELSE <<>>

\* C24: when regeneration is required the hints hold one instruction for each
\* invariant named in the violations, in the order of the invariants'
\* priority; without a critical violation there are no hints.
C24_HintsInPriorityOrder ==
  Gated =>
    LET v == gateResult.violations
        critical == \E i \in DOMAIN v : v[i].severity = "CRITICAL"
        named == SelectSeq(PRIORITY, LAMBDA name : name \in Named(v))
    IN HintsOf(gateResult) =
         IF critical THEN [i \in DOMAIN named |-> CONSTRAINT[named[i]]] ELSE <<>>

\* The severity of each invariant.
SEVERITY ==
  [NEVER_ABANDONS |-> "CRITICAL", ALWAYS_CALIBRATES |-> "MEDIUM", NEVER_JUDGES |-> "HIGH",
   NEVER_FILLS |-> "MEDIUM", NEVER_NARRATES |-> "HIGH"]

\* C25: every violation carries the severity of its invariant; a NEVER_FILLS
\* violation is never other than MEDIUM.
C25_FixedSeverity ==
  Gated =>
    \A i \in DOMAIN gateResult.violations :
      gateResult.violations[i].severity = SEVERITY[gateResult.violations[i].invariant]

\* Whether the response is longer than the gate that ran allows at a weight:
\* more than 3 sentences, or more than 50 words from W13 on (production); more
\* tokens than the weight's limit (validation).
ExceedsCeiling(weight) ==
  IF gateModule = "production"
  THEN \/ sentenceCount(llmResponse) > SENTENCE_LIMIT
       \/ weight >= 13 /\ wordsOfText(llmResponse) > WORD_LIMIT
  ELSE approximateTokens(llmResponse) > tokenLimit(weight).tokens

\* C26: the gate reports a NEVER_FILLS violation exactly when the weight is 8
\* or more and the response is longer than the ceiling of that weight; what is
\* too long at a weight is too long at every higher weight; and a response
\* within the ceiling that no other check faults passes.
C26_FillsIffOverCeiling ==
  Gated =>
    LET weight == gateInput.weight
        fills == "NEVER_FILLS" \in Named(gateResult.violations)
    IN /\ fills <=> weight >= 8 /\ ExceedsCeiling(weight)
       /\ \A higher \in {8, 13, 21} :
            weight >= 8 /\ higher >= weight /\ ExceedsCeiling(weight)
              => ExceedsCeiling(higher)
       /\ ~fills /\ Named(gateResult.violations) \subseteq {"NEVER_FILLS"} => gateResult.pass

\* C27: an ALWAYS_CALIBRATES violation is reported only at weight 13 or more,
\* or when the resistance signals hold an exhaustion (comfort_mode) signal.
C27_CalibratesOnlyWhenDue ==
  Gated /\ "ALWAYS_CALIBRATES" \in Named(gateResult.violations)
    => gateInput.weight >= 13 \/ isExhausted(gateInput.resistance)

\* The place of an invariant in the order of priority.
Priority(name) == CHOOSE i \in DOMAIN PRIORITY : PRIORITY[i] = name

\* C28: the violations of a result are grouped in the order of the invariants'
\* priority.
C28_ViolationsInPriorityOrder ==
  Gated =>
    \A i, j \in DOMAIN gateResult.violations :
      i < j => Priority(gateResult.violations[i].invariant)
                 <= Priority(gateResult.violations[j].invariant)


\* ====================================================== prompt engine claims
\* A prompt has been assembled.
Assembled == prompt # NoPrompt

\* The length constraint of the fewest words among those getLengthConstraint
\* returns for the weights of the calibration table.
ShortestCeiling ==
  LET table == {getLengthConstraint(w) : w \in WEIGHT_CALIBRATIONS}
  IN CHOOSE c \in table : \A d \in table : c.words <= d.words

\* C21: whenever the analysis of the utterance reports a resistance signal of
\* weight critical, the length constraint of the assembled prompt is the
\* shortest one of the table, whatever the weight of the utterance, and the
\* resistance block carries the boundary-honouring instruction
\* (immediate_retreat).
C21_CriticalResistanceShortestBudget ==
  (Assembled /\ analysis.hasCriticalResistance) =>
    /\ prompt.lengthConstraint = ShortestCeiling
    /\ prompt.resistanceBlock = "immediate_retreat"

\* The pathways of the landscape handed to buildSystemPrompt, none for null.
Handed == IF landscape = NoLandscape THEN <<>> ELSE landscape.pathways

\* The conductance of the pathway an instruction of the context block renders.
RenderedConductance(part) ==
  (CHOOSE p \in {Handed[i] : i \in DOMAIN Handed} : contextPart(p) = part).conductance

\* C29: the context block of an assembled prompt renders min(5, n) of the n
\* pathways of the landscape, each once, in descending order of conductance,
\* and no pathway left out has a higher conductance than one rendered; no
\* rendered pathway has a conductance below minConductance, and none of a
\* loaded landscape is at or under the threshold of the loader's query; the
\* block is in the prompt iff the landscape has a pathway.
C29_TopPathwaysRendered ==
  Assembled =>
    LET rendered == prompt.conductanceBlock
        parts == {rendered[i] : i \in DOMAIN rendered}
        left == {Handed[i] : i \in DOMAIN Handed} \ {p \in {Handed[i] : i \in DOMAIN Handed} : contextPart(p) \in parts}
    IN /\ Len(rendered) = Min(TOP_PATHWAYS, Len(Handed))
       /\ \A i \in DOMAIN rendered : \E j \in DOMAIN Handed : rendered[i] = contextPart(Handed[j])
       /\ \A i, j \in DOMAIN rendered : i # j => rendered[i] # rendered[j]
       /\ \A i, j \in DOMAIN rendered :
            i < j => RenderedConductance(rendered[i]) >= RenderedConductance(rendered[j])
       /\ \A p \in left : \A i \in DOMAIN rendered :
            p.conductance <= RenderedConductance(rendered[i])
       /\ \A i \in DOMAIN rendered : RenderedConductance(rendered[i]) >= minConductance
       /\ loaded => \A i \in DOMAIN rendered :
                      RenderedConductance(rendered[i]) > minConductance + Scale \div 100
       /\ (\E i \in DOMAIN prompt.blocks : prompt.blocks[i] = "RELATIONAL CONTEXT")
            <=> Len(Handed) > 0

\* A prompt assembled with a loaded landscape of more than 5 pathways.
C29_Witness ==
  /\ Assembled
  /\ loaded
  /\ Len(Handed) > TOP_PATHWAYS
  /\ Len(prompt.conductanceBlock) = TOP_PATHWAYS

\* C30: a call of buildSystemPrompt leaves the analysis and the landscape it
\* is handed as they were, the order of the landscape's pathways included,
\* and a call with the arguments of the call before it returns the same
\* prompt.
C30_AssemblyIsPure ==
  [][assemblies' = assemblies + 1 =>
       /\ analysis' = analysis
       /\ landscape' = landscape
       /\ (Assembled /\ prompt'.regenBlock = prompt.regenBlock) => prompt' = prompt]_vars


\* ===================================================== timing tracker claims
\* A clock of a report as the contract describes it for a checkpoint marked at
\* markTime (NullTime: not marked) with the fixed target.
ClockAsClaimed(clock, target, met, markTime, fixed) ==
  /\ clock.null <=> markTime = NullTime
  /\ ~clock.null => clock.ms = markTime - utteranceEndTime
  /\ target = fixed
  /\ met <=> (~clock.null /\ clock.ms <= fixed)

\* A report as the contract describes it for the tracker as it is.
ReportAsClaimed(r) ==
  IF utteranceEndTime = NullTime THEN r = NoReport
  ELSE /\ r # NoReport
       /\ ClockAsClaimed(r.clockA_ms, r.clockA_target, r.clockA_met, backchannelSentTime, 300)
       /\ ClockAsClaimed(r.clockB_ms, r.clockB_target, r.clockB_met, firstContentTime, 700)
       /\ ClockAsClaimed(r.clockC_ms, r.clockC_target, r.clockC_met, responseCompleteTime, 1200)

\* C31: every call of getReport returns null while utterance end is not
\* marked; afterwards, for each of the checkpoints A, B and C, the elapsed value
\* is null iff the checkpoint is not marked and else its mark time minus the
\* utterance-end time, and its met flag is true iff the elapsed value is not
\* null and at most the target (300 / 700 / 1200 ms).
C31_ReportAsClaimed ==
  [][(marks' = marks /\ elapses' = elapses) => ReportAsClaimed(timingReport')]_vars

\* A report with checkpoint A met, B marked and missed and C not marked.
C31_Witness ==
  /\ timingReport # NoReport
  /\ timingReport.clockA_met
  /\ ~timingReport.clockB_ms.null /\ ~timingReport.clockB_met
  /\ timingReport.clockC_ms.null /\ ~timingReport.clockC_met

\* C37: in every report the mark the summary shows for a checkpoint (check:
\* TRUE, cross: FALSE) agrees with the checkpoint's met flag, so that a
\* checkpoint never marked is shown with the cross.
C37_SummaryAgreesWithMet ==
  timingReport # NoReport =>
    /\ timingReport.summary.A <=> timingReport.clockA_met
    /\ timingReport.summary.B <=> timingReport.clockB_met
    /\ timingReport.summary.C <=> timingReport.clockC_met

\* C38: every elapsed value of a report that is not null is >= 0, whatever the
\* order and repetition of the mark calls, so that no checkpoint marked before
\* the current utterance end is reported as met.
C38_ElapsedNeverNegative ==
  timingReport # NoReport =>
    \A clock \in {timingReport.clockA_ms, timingReport.clockB_ms, timingReport.clockC_ms} :
      ~clock.null => clock.ms >= 0


\* ============================================== sorted gate variant claim
\* The positions of a violations list that hold the severity.
Holding(violations, severity) ==
  {i \in DOMAIN violations : violations[i].severity = severity}

\* C36: the gate module that sorts its violations (lines 600-628) returns them
\* ordered by severity: every CRITICAL violation precedes every HIGH one and
\* every HIGH violation precedes every MEDIUM one.
C36_SortedBySeverity ==
  (Gated /\ gateModule = "validation") =>
    LET violations == gateResult.violations
    IN /\ \A i \in Holding(violations, "CRITICAL") :
            \A j \in Holding(violations, "HIGH") \cup Holding(violations, "MEDIUM") : i < j
       /\ \A i \in Holding(violations, "HIGH") :
            \A j \in Holding(violations, "MEDIUM") : i < j


\* ================================================= backchannel sender claim
\* The positions of the messages of the given types on the backchannel's socket.
SentAt(types) == {i \in DOMAIN bcSocket : bcSocket[i].type \in types}

\* C39: sendBackchannel sends avatar_cue first, before any backchannel audio;
\* when it has returned it has sent exactly one backchannel_sent, as its last
\* message, also when the TTS call or its stream failed, and none before; for
\* the silence token "..." it makes no TTS call and sends no audio message.
C39_CueFirstSentLast ==
  /\ bcSocket # <<>> => bcSocket[1].type = "avatar_cue"
  /\ SentAt({"avatar_cue"}) \subseteq {1}
  /\ IF bcPc = "returned"
     THEN SentAt({"backchannel_sent"}) = {Len(bcSocket)}
     ELSE SentAt({"backchannel_sent"}) = {}
  /\ backchannel.text = "..." =>
       /\ ttsConverts = 0
       /\ SentAt({"backchannel_audio", "binary"}) = {}

\* sendBackchannel returned after a TTS call that failed.
C39_Witness ==
  /\ bcPc = "returned"
  /\ backchannel.text # "..."
  /\ ttsConverts = 1
  /\ SentAt({"backchannel_audio", "binary"}) = {}
  /\ SentAt({"backchannel_sent"}) = {2}

\* ==================================================== audio streaming claim
\* The bytes of the binary chunks sent, in the order sent.
RECURSIVE BytesSent(_)
BytesSent(socket) ==
  IF socket = <<>> THEN <<>>
  ELSE IF Head(socket).type = "binary" THEN Head(socket).bytes \o BytesSent(Tail(socket))
  ELSE BytesSent(Tail(socket))

\* The positions of the binary chunks on the audio socket.
BinaryAt == {i \in DOMAIN audioSocket : audioSocket[i].type = "binary"}

\* C40: every binary chunk streamAudioToClient sends has at most 6000 bytes and
\* every one but the last, sent when the stream has ended, exactly 6000; each
\* binary chunk comes right after an audio_chunk header that carries its size
\* and every header is followed by its chunk; the chunks sent are, in order,
\* the first bytes of the stream, each once, and when the call has returned
\* all of them, the total returned being the number of bytes received.
C40_ChunksForwardStream ==
  /\ \A i \in BinaryAt :
       /\ Len(audioSocket[i].bytes) <= 6000
       /\ (audioPc # "returned" \/ \E j \in BinaryAt : j > i) => Len(audioSocket[i].bytes) = 6000
       /\ i > 1 /\ audioSocket[i - 1].type = "audio_chunk"
       /\ audioSocket[i - 1].size = Len(audioSocket[i].bytes)
  /\ \A i \in DOMAIN audioSocket \ BinaryAt : i + 1 \in BinaryAt
  /\ BytesSent(audioSocket) = [i \in 1..totalBytesSent |-> i]
  /\ totalBytesSent <= received
  /\ audioPc = "returned" => totalBytesSent = received

\* A call returned after it sent full chunks and a last chunk of fewer bytes,
\* put together from more than one chunk of the stream.
C40_Witness ==
  /\ audioPc = "returned"
  /\ audioChunks >= 2
  /\ Cardinality(BinaryAt) >= 3
  /\ audioSocket[Len(audioSocket)].size \in 1..5999

\* ---- C34
\* The roles of h begin with user and alternate user, assistant.
Alternates(h) == \A i \in DOMAIN h : h[i] = IF i % 2 = 1 THEN "user" ELSE "assistant"

\* A body holds an open LLM stream: conversationHistory is the list it passed
\* as messages (lines 311, 629).
AtLlmCall == \E t \in Running : turns[t].pc \in {"llm", "stream"}

\* C34: the message list passed to the LLM begins with a user message,
\* alternates user and assistant, and holds at most 20 entries, after any
\* sequence of successful and failed turns.
C34_AlternatesFromUser ==
  AtLlmCall => /\ Alternates(conversationHistory)
               /\ Len(conversationHistory) <= HISTORY_LIMIT

\* ---- C32
\* This step makes an LLM or TTS call or sends a message to the client.
CallsOrSends == events' # events /\ events' # <<>>

\* This step runs the timer callback of lines 358-361, which sends the status
\* message that ends the turn.
SendsListening == program = "atelier" /\ releaseTimers' < releaseTimers

\* C32: once the client connection is closed, no LLM or TTS call is started
\* for it and no message is sent on its socket, the delayed status message
\* included.
C32_NothingAfterClose == [][closed => ~CallsOrSends /\ ~SendsListening]_vars

\* ---- C33
\* C33: whenever the turn lock is held it is eventually released, whether the
\* steps of the turn succeed or throw.
C33_LockReleased == isResponding ~> ~isResponding

\* ---- C35
\* C35: a session entered into the registry when its connection opened is no
\* longer in it once the connection's close handling has finished, whether the
\* client was a voice client or registered as a dashboard.
C35_ClosedNotRegistered ==
  \A c \in Connections : connections[c].pc = "closed" => c \notin activeConversations


====
